---- MODULE Spec2Model ----
(***************************************************************************)
(* A model of the beacon indexer's DB writer (dbWriter) and of the         *)
(* controller's restart recovery (Indexer.StartIndexer).                   *)
(*                                                                         *)
(* Conventions.  A Go pointer or slice that may be nil is a sequence of    *)
(* length 0 (nil) or 1 (the value): block.body, overrideForkId,            *)
(* depositIndex, epochStats.values.  A database transaction is the record  *)
(* of the rows inserted through it, table by table, in insertion order.    *)
(***************************************************************************)
EXTENDS Integers, Sequences, FiniteSets, TLC

(***************************************************************************)
(* Bounds and chain configuration                                          *)
(***************************************************************************)
\* chainState.GetSpecs().SlotsPerEpoch
SlotsPerEpoch == 2

\* the epochs persistEpochData is called for
Epochs == 0 .. 1

\* the slots a block of the input list may have: all of epoch 0 and the
\* first slot of epoch 1, so that for either epoch the list can hold blocks
\* of the epoch and blocks outside it
SlotDomain == 0 .. SlotsPerEpoch

\* the fork ids a block may carry in memory (0: the canonical fork)
ForkIds == {0, 2}

\* the block bodies: counts of the operations in the body, and its attester
\* slashings as pairs of attesting-index lists
Bodies ==
  { [attestations |-> 1, deposits |-> 1, voluntaryExits |-> 0,
     proposerSlashings |-> 0, attesterSlashings |-> <<>>],
    [attestations |-> 2, deposits |-> 2, voluntaryExits |-> 1,
     proposerSlashings |-> 1,
     attesterSlashings |->
       << [att1 |-> [isNil |-> FALSE, indices |-> <<1, 2>>],
           att2 |-> [isNil |-> FALSE, indices |-> <<2, 3>>]] >>] }

\* block.GetBlock(): nil (<<>>) or the body
BodyOptions == {<<>>} \cup { <<b>> : b \in Bodies }

\* the blocks of the block cache an input list is drawn from
BlockPool ==
  { [Root |-> <<s, f, b>>, Slot |-> s, forkId |-> f, body |-> b] :
      s \in SlotDomain, f \in ForkIds, b \in BodyOptions }

RECURSIVE SeqsUpTo(_, _)
SeqsUpTo(S, n) ==
  IF n = 0 THEN {<<>>}
  ELSE LET shorter == SeqsUpTo(S, n - 1)
       IN shorter \cup { Append(q, x) : q \in {r \in shorter : Len(r) = n - 1}, x \in S }

\* the block lists handed to persistEpochData: blocks of one fork (the chain
\* being finalized), in any order, with any slots, with or without body
BlockLists ==
  UNION { SeqsUpTo({b \in BlockPool : b.forkId = f}, SlotsPerEpoch) : f \in ForkIds }

\* the validator indices an attester slashing's attestations may list, and
\* the longest list of attesting indices
MaxValidatorIndex == 2

MaxIndices == 3

AttestingIndexLists == SeqsUpTo(1 .. MaxValidatorIndex, MaxIndices)

\* Attestation1() / Attestation2() of an attester slashing: nil, or an
\* attestation with its attesting indices
IndexedAttestations ==
  {[isNil |-> TRUE, indices |-> <<>>]}
    \cup { [isNil |-> FALSE, indices |-> l] : l \in AttestingIndexLists }

\* specs.AltairForkEpoch and specs.EpochsPerSyncCommitteePeriod
AltairForkEpoch == 1

EpochsPerSyncCommitteePeriod == 2

\* persistSyncAssignments is called for the epochs 0 .. MaxSyncEpoch - 1
MaxSyncEpoch == 5

\* the finalized checkpoint of the chain state when StartIndexer is called,
\* and the current epoch of the wall clock
FinalizedEpoch == 1

CurrentEpoch == FinalizedEpoch + 2

\* the recovery log holds at most MaxLogRecords records (forks, duties,
\* epoch aggregations and blocks together)
MaxLogRecords == 2

\* the calls of StartIndexer that are followed
MaxStartCalls == 2

\* the number of duty records of the long stream (more than the limiter holds)
MaxDutyRecords == 12

\* the clients added to the indexer before it is started
Clients == {"client1", "client2"}

\* the finality events published to the indexer
MaxFinalityEvents == 2

\* the values of SLOTS_PER_EPOCH the wall-clock prune decision is taken for
MaxSlotsPerEpochValue == 8

\* the largest value of an epoch cursor (an unsigned integer, 64 bits wide
\* in the program)
MaxUint == 15

\* the width of the indexer's configuration fields (uint16)
ConfigFieldRange == 65536

\* the configured values NewIndexer is called with: around the minimum and
\* around the largest value of the field
ConfiguredValues == {0, 1, 2, 3, ConfigFieldRange - 1}

\* utils.Config.Indexer.MaxParallelValidatorSetRequests is wider than the
\* field it is converted to
ConfiguredRequests ==
  ConfiguredValues \cup {ConfigFieldRange, ConfigFieldRange + 1, ConfigFieldRange + 3}

\* EpochStats.GetValues(): nil (<<>>) or the values
StatsValues ==
  [FirstDepositIndex |-> 7,
   ProposerDuties |-> [i \in 0 .. SlotsPerEpoch - 1 |-> 10 + i],
   SyncCommitteeDuties |-> <<21, 22>>]

StatsOptions == {<<>>, <<StatsValues>>}

\* the database fault of one call: the insert operation that fails ("none":
\* every insert succeeds)
DbFaults ==
  {"none", "InsertSlot", "InsertDeposits", "InsertVoluntaryExits",
   "InsertSlashings", "InsertMissingSlot", "InsertEpoch"}

\* the faults of a call that opens its own transaction: an insert fails, or
\* the commit of the transaction does
TxFaults == DbFaults \cup {"Commit"}

(***************************************************************************)
(* The database (package db)                                               *)
(***************************************************************************)
EmptyTx ==
  [slots |-> <<>>, deposits |-> <<>>, voluntaryExits |-> <<>>,
   slashings |-> <<>>, missing |-> <<>>, epochs |-> <<>>]

\* db.InsertX(rows, tx): TRUE when the insert succeeds
InsertOk(kind, fault) == fault /= kind

\* db.RunDBTransaction(fn): the transaction's rows are committed when fn
\* returns nil and rolled back when it returns an error or panics
RunDBTransaction(txRows, result) ==
  IF result = "nil" THEN txRows ELSE EmptyTx

(***************************************************************************)
(* chain state                                                             *)
(***************************************************************************)
EpochStartSlot(epoch) == epoch * SlotsPerEpoch

(***************************************************************************)
(* dbWriter.buildDbBlock                                                   *)
(***************************************************************************)
\* ForkId: uint64(block.forkId), replaced by *overrideForkId when given
slotForkId(block, overrideForkId) ==
  IF overrideForkId /= <<>> THEN overrideForkId[1] ELSE block.forkId

buildDbBlock(block, overrideForkId) ==
  IF block.body = <<>> THEN <<>>
  ELSE LET blockBody == block.body[1]
       IN << [Slot |-> block.Slot,
              Status |-> "Canonical",
              ForkId |-> slotForkId(block, overrideForkId),
              Root |-> block.Root,
              AttestationCount |-> blockBody.attestations,
              DepositCount |-> blockBody.deposits,
              ExitCount |-> blockBody.voluntaryExits,
              AttesterSlashingCount |-> Len(blockBody.attesterSlashings),
              ProposerSlashingCount |-> blockBody.proposerSlashings] >>

(***************************************************************************)
(* dbWriter.buildDbDeposits                                                *)
(***************************************************************************)
\* mutant: the running index is not advanced
nextDepositIndex_NoAdvance(idx) == idx

\* *depositIndex++
nextDepositIndex(idx) == idx + 1

\* the Deposit row of the deposit at position idx (0-based) of the block,
\* with depositIndex the running index before this deposit (<<>>: nil)
buildDbDeposit(block, idx, depositIndex, orphaned, overrideForkId) ==
  [SlotNumber |-> block.Slot,
   SlotIndex |-> idx,
   SlotRoot |-> block.Root,
   Orphaned |-> orphaned,
   ForkId |-> IF overrideForkId /= <<>> THEN overrideForkId[1] ELSE block.forkId,
   Index |-> depositIndex]

RECURSIVE buildDbDepositsLoop(_, _, _, _, _, _)
buildDbDepositsLoop(block, idx, depositIndex, orphaned, overrideForkId, rows) ==
  IF idx >= block.body[1].deposits
  THEN [rows |-> rows, depositIndex |-> depositIndex]
  ELSE buildDbDepositsLoop(
         block, idx + 1,
         IF depositIndex /= <<>> THEN <<nextDepositIndex(depositIndex[1])>> ELSE <<>>,
         orphaned, overrideForkId,
         Append(rows, buildDbDeposit(block, idx, depositIndex, orphaned, overrideForkId)))

\* returns the rows and the running deposit index after them
buildDbDeposits(block, depositIndex, orphaned, overrideForkId) ==
  IF block.body = <<>>
  THEN [rows |-> <<>>, depositIndex |-> depositIndex]
  ELSE buildDbDepositsLoop(block, 0, depositIndex, orphaned, overrideForkId, <<>>)

(***************************************************************************)
(* dbWriter.buildDbVoluntaryExits                                          *)
(***************************************************************************)
buildDbVoluntaryExits(block, orphaned, overrideForkId) ==
  IF block.body = <<>> THEN <<>>
  ELSE [i \in 1 .. block.body[1].voluntaryExits |->
          [SlotNumber |-> block.Slot,
           SlotIndex |-> i - 1,
           SlotRoot |-> block.Root,
           Orphaned |-> orphaned,
           ForkId |-> IF overrideForkId /= <<>> THEN overrideForkId[1] ELSE block.forkId]]

(***************************************************************************)
(* dbWriter.buildDbSlashings                                               *)
(***************************************************************************)
\* contains(b, e) of go-intersect
Contains(b, e) == \E i \in 1 .. Len(b) : b[i] = e

\* intersect.Simple(a, b) of github.com/juliangruber/go-intersect: the
\* elements of a, in a's order and as often as a holds them, that b contains
RECURSIVE intersectSimple(_, _)
intersectSimple(a, b) ==
  IF a = <<>> THEN <<>>
  ELSE (IF Contains(b, Head(a)) THEN <<Head(a)>> ELSE <<>>)
       \o intersectSimple(Tail(a), b)

\* mutant: the indices of the second attestation are taken as they are
slashedIndices_SecondListOnly(att1AttestingIndices, att2AttestingIndices) ==
  att2AttestingIndices

\* inter := intersect.Simple(att1AttestingIndices, att2AttestingIndices)
slashedIndices(att1AttestingIndices, att2AttestingIndices) ==
  intersectSimple(att1AttestingIndices, att2AttestingIndices)

\* the rows of one attester slashing, which is the slashingIndex-th
\* slashing of the block; attester rows set neither ForkId nor Orphaned
\* (both keep Go's zero value).  An attestation with isNil set is one whose
\* Attestation1()/Attestation2() or AttestingIndices() is nil.
attesterSlashingRows(block, slashingIndex, attesterSlashing) ==
  LET inter == slashedIndices(attesterSlashing.att1.indices,
                              attesterSlashing.att2.indices)
  IN [j \in 1 .. Len(inter) |->
        [SlotNumber |-> block.Slot,
         SlotIndex |-> slashingIndex,
         SlotRoot |-> block.Root,
         Orphaned |-> FALSE,
         ForkId |-> 0,
         ValidatorIndex |-> inter[j],
         Reason |-> "AttesterSlashing"]]

RECURSIVE attesterSlashingsLoop(_, _, _, _)
attesterSlashingsLoop(block, attesterSlashings, slashingIndex, rows) ==
  IF attesterSlashings = <<>> THEN rows
  ELSE LET s == Head(attesterSlashings)
       IN IF s.att1.isNil \/ s.att2.isNil
          THEN attesterSlashingsLoop(block, Tail(attesterSlashings), slashingIndex, rows)
          ELSE attesterSlashingsLoop(
                 block, Tail(attesterSlashings), slashingIndex + 1,
                 rows \o attesterSlashingRows(block, slashingIndex, s))

proposerSlashingRows(block, orphaned, overrideForkId) ==
  [i \in 1 .. block.body[1].proposerSlashings |->
     [SlotNumber |-> block.Slot,
      SlotIndex |-> i - 1,
      SlotRoot |-> block.Root,
      Orphaned |-> orphaned,
      ForkId |-> IF overrideForkId /= <<>> THEN overrideForkId[1] ELSE block.forkId,
      ValidatorIndex |-> 0,
      Reason |-> "ProposerSlashing"]]

buildDbSlashings(block, orphaned, overrideForkId) ==
  IF block.body = <<>> THEN <<>>
  ELSE attesterSlashingsLoop(
         block, block.body[1].attesterSlashings,
         block.body[1].proposerSlashings,
         proposerSlashingRows(block, orphaned, overrideForkId))

(***************************************************************************)
(* dbWriter.persistBlockData and persistBlockChildObjects                  *)
(***************************************************************************)
\* mutant: the orphaned flag is ignored
slotStatus_IgnoresOrphaned(status, orphaned) == status

\* if orphaned { dbBlock.Status = dbtypes.Orphaned }
slotStatus(status, orphaned) == IF orphaned THEN "Orphaned" ELSE status

\* the inserts of persistBlockChildObjects for the rows d (deposits, with
\* the running index after them), e (voluntary exits) and s (slashings), in
\* this order; an insert is made only for a non-empty list of rows, and the
\* first failing insert ends the function.  (Consolidations and EL requests
\* are always empty lists.)
insertChildObjects(txIn, d, e, s, fault) ==
  LET depFail == Len(d.rows) > 0 /\ ~InsertOk("InsertDeposits", fault)
      exitFail == ~depFail /\ Len(e) > 0 /\ ~InsertOk("InsertVoluntaryExits", fault)
      slashFail == ~depFail /\ ~exitFail /\ Len(s) > 0
                   /\ ~InsertOk("InsertSlashings", fault)
  IN [err |-> depFail \/ exitFail \/ slashFail,
      tx |-> [txIn EXCEPT
                !.deposits = IF depFail THEN @ ELSE @ \o d.rows,
                !.voluntaryExits = IF depFail \/ exitFail THEN @ ELSE @ \o e,
                !.slashings = IF depFail \/ exitFail \/ slashFail THEN @ ELSE @ \o s],
      depositIndex |-> d.depositIndex,
      built |-> d.rows]

persistBlockChildObjects(txIn, block, depositIndex, orphaned, overrideForkId, fault) ==
  insertChildObjects(
    txIn,
    buildDbDeposits(block, depositIndex, orphaned, overrideForkId),
    buildDbVoluntaryExits(block, orphaned, overrideForkId),
    buildDbSlashings(block, orphaned, overrideForkId),
    fault)

\* what persistBlockData returns after persistBlockChildObjects returned c
afterChildObjects(c) ==
  [result |-> IF c.err THEN "error" ELSE "nil",
   tx |-> c.tx, depositIndex |-> c.depositIndex,
   built |-> c.built, flagged |-> TRUE]

\* persistBlockData from its InsertSlot on, dbBlock being what buildDbBlock
\* returned
insertDbBlock(txIn, block, dbBlock, depositIndex, orphaned, overrideForkId, fault) ==
  IF dbBlock = <<>>
  THEN [result |-> "panic", tx |-> txIn, depositIndex |-> depositIndex,
        built |-> <<>>, flagged |-> FALSE]
  ELSE IF ~InsertOk("InsertSlot", fault)
  THEN [result |-> "error", tx |-> txIn, depositIndex |-> depositIndex,
        built |-> <<>>, flagged |-> FALSE]
  ELSE afterChildObjects(
         persistBlockChildObjects(
           [txIn EXCEPT !.slots =
              Append(@, [dbBlock[1] EXCEPT !.Status = slotStatus(@, orphaned)])],
           block, depositIndex, orphaned, overrideForkId, fault))

\* result: "nil", "error", or "panic" (buildDbBlock returned nil for a block
\* without body, and the row is dereferenced); flagged: block.isInFinalizedDb
\* has been set; built: the Deposit rows buildDbDeposits returned
persistBlockData(txIn, block, depositIndex, orphaned, overrideForkId, fault) ==
  insertDbBlock(txIn, block, buildDbBlock(block, overrideForkId), depositIndex,
                orphaned, overrideForkId, fault)

(***************************************************************************)
(* dbWriter.buildDbEpoch, with the blockFn of persistEpochData             *)
(***************************************************************************)
\* canonicalForkId := ForkKey(0)
canonicalForkId == 0

\* blockIdx < len(blocks) && blocks[blockIdx].Slot == slot  (blockIdx 0-based)
epochSlotHasBlock(blocks, blockIdx, slot) ==
  blockIdx < Len(blocks) /\ blocks[blockIdx + 1].Slot = slot

\* lastSlot := firstSlot + SlotsPerEpoch - 1, the loop runs slot <= lastSlot
epochLastSlot(firstSlot) == firstSlot + SlotsPerEpoch - 1

\* depositIndexField := epochStatsValues.FirstDepositIndex (a copy), nil
\* without values
firstDepositIndex(values) ==
  IF values /= <<>> THEN <<values[1].FirstDepositIndex>> ELSE <<>>

\* the aggregation of one block with a body into dbEpoch
aggregateBlock(dbEpoch, blockBody) ==
  [dbEpoch EXCEPT
     !.AttestationCount = @ + blockBody.attestations,
     !.DepositCount = @ + blockBody.deposits,
     !.ExitCount = @ + blockBody.voluntaryExits,
     !.AttesterSlashingCount = @ + Len(blockBody.attesterSlashings),
     !.ProposerSlashingCount = @ + blockBody.proposerSlashings]

\* the loop state after blockFn returned r for the block
afterBlockFn(acc, block, r) ==
  [acc EXCEPT
     !.tx = r.tx,
     !.depositIndex = r.depositIndex,
     !.built = @ \o r.built,
     !.flagged = IF r.flagged THEN @ \cup {block.Root} ELSE @,
     !.loggedErrors = IF r.result = "nil" THEN @ ELSE @ + 1]

\* the blockFn persistEpochData passes: persistBlockData as canonical with
\* fork id 0; its error is logged and dropped
epochBlockFn(acc, block, fault) ==
  afterBlockFn(acc, block,
               persistBlockData(acc.tx, block, acc.depositIndex, FALSE,
                                <<canonicalForkId>>, fault))

\* the loop body for a slot whose block is `block`: the block is counted,
\* and without a body nothing else is done for it
epochBlockStep(acc, block, fault) ==
  IF block.body = <<>>
  THEN [acc EXCEPT !.blockIdx = @ + 1, !.dbEpoch.BlockCount = @ + 1]
  ELSE [epochBlockFn([acc EXCEPT !.blockIdx = @ + 1, !.dbEpoch.BlockCount = @ + 1],
                     block, fault)
          EXCEPT !.dbEpoch = aggregateBlock(@, block.body[1])]

\* the loop body for one slot
epochSlotStep(slot, blocks, fault, acc) ==
  IF epochSlotHasBlock(blocks, acc.blockIdx, slot)
  THEN epochBlockStep(acc, blocks[acc.blockIdx + 1], fault)
  ELSE acc

RECURSIVE buildDbEpochLoop(_, _, _, _, _)
buildDbEpochLoop(slot, lastSlot, blocks, fault, acc) ==
  IF slot > lastSlot THEN acc
  ELSE buildDbEpochLoop(slot + 1, lastSlot, blocks, fault,
                        epochSlotStep(slot, blocks, fault, acc))

buildDbEpoch(txIn, epoch, blocks, values, fault) ==
  buildDbEpochLoop(
    EpochStartSlot(epoch), epochLastSlot(EpochStartSlot(epoch)), blocks, fault,
    [blockIdx |-> 0,
     depositIndex |-> firstDepositIndex(values),
     dbEpoch |-> [Epoch |-> epoch, BlockCount |-> 0, AttestationCount |-> 0,
                  DepositCount |-> 0, ExitCount |-> 0,
                  AttesterSlashingCount |-> 0, ProposerSlashingCount |-> 0],
     tx |-> txIn, built |-> <<>>, flagged |-> {}, loggedErrors |-> 0])

(***************************************************************************)
(* dbWriter.persistMissedSlots                                             *)
(***************************************************************************)
\* math.MaxInt64, the proposer of a missed slot without epoch stats values
\* (the model's integers are 32 bits wide: the largest of them stands for it)
MaxInt64 == 2147483647

\* blockIdx < len(blocks) && blocks[blockIdx].Slot == slot  (blockIdx 0-based)
missedSlotHasBlock(blocks, blockIdx, slot) ==
  blockIdx < Len(blocks) /\ blocks[blockIdx + 1].Slot = slot

\* mutant: buildDbEpoch's inclusive last slot under this loop's exclusive test
missedLastSlot_OffByOne(firstSlot) == firstSlot + SlotsPerEpoch - 1

\* lastSlot := firstSlot + SlotsPerEpoch, the loop runs slot < lastSlot
missedLastSlot(firstSlot) == firstSlot + SlotsPerEpoch

\* mutant: the duty is indexed without the slot's offset in the epoch
missedProposer_FirstDuty(values, slot, firstSlot) ==
  IF values /= <<>> THEN values[1].ProposerDuties[0] ELSE MaxInt64

missedProposer(values, slot, firstSlot) ==
  IF values /= <<>> THEN values[1].ProposerDuties[slot - firstSlot] ELSE MaxInt64

\* the loop body for one slot; st: the loop's state (blockIdx, the
\* transaction, err once an insert has failed)
missedSlotStep(slot, firstSlot, blocks, values, fault, st) ==
  IF missedSlotHasBlock(blocks, st.blockIdx, slot)
  THEN [st EXCEPT !.blockIdx = @ + 1]
  ELSE IF ~InsertOk("InsertMissingSlot", fault)
  THEN [st EXCEPT !.err = TRUE]
  ELSE [st EXCEPT !.tx.missing =
          Append(@, [Slot |-> slot,
                     Proposer |-> missedProposer(values, slot, firstSlot),
                     Status |-> "Missing"])]

RECURSIVE persistMissedSlotsLoop(_, _, _, _, _, _, _)
persistMissedSlotsLoop(slot, firstSlot, lastSlot, blocks, values, fault, st) ==
  IF st.err \/ ~(slot < lastSlot) THEN st
  ELSE persistMissedSlotsLoop(
         slot + 1, firstSlot, lastSlot, blocks, values, fault,
         missedSlotStep(slot, firstSlot, blocks, values, fault, st))

persistMissedSlots(txIn, epoch, blocks, values, fault) ==
  persistMissedSlotsLoop(
    EpochStartSlot(epoch), EpochStartSlot(epoch),
    missedLastSlot(EpochStartSlot(epoch)), blocks, values, fault,
    [blockIdx |-> 0, tx |-> txIn, err |-> FALSE])

(***************************************************************************)
(* dbWriter.persistEpochData (inside its transaction)                      *)
(***************************************************************************)
\* the end of persistEpochData: e is what buildDbEpoch produced, m what
\* persistMissedSlots returned; then the Epoch row is inserted
insertDbEpoch(e, m, fault) ==
  LET failed == m.err \/ ~InsertOk("InsertEpoch", fault)
  IN [result |-> IF failed THEN "error" ELSE "nil",
      tx |-> IF failed THEN m.tx ELSE [m.tx EXCEPT !.epochs = Append(@, e.dbEpoch)],
      dbEpoch |-> e.dbEpoch,
      built |-> e.built,
      flagged |-> e.flagged,
      failedInserts |-> e.loggedErrors + (IF failed THEN 1 ELSE 0),
      depositIndex |-> e.depositIndex]

\* the missed slots are persisted through the transaction buildDbEpoch's
\* blockFn has written to
afterBuildDbEpoch(e, epoch, blocks, values, fault) ==
  insertDbEpoch(e, persistMissedSlots(e.tx, epoch, blocks, values, fault), fault)

\* persistEpochData called with a transaction
persistEpochDataIn(txIn, epoch, blocks, values, fault) ==
  afterBuildDbEpoch(buildDbEpoch(txIn, epoch, blocks, values, fault),
                    epoch, blocks, values, fault)

\* what db.RunDBTransaction(fn) returns: the error of fn, or the error of
\* the commit
transactionResult(result, commitOk) ==
  IF result = "nil" /\ ~commitOk THEN "error" ELSE result

\* mutant: the result of the inner call is returned, not the transaction's
returnOfOwnTransaction_InnerResult(outcome, result) == result

\* return db.RunDBTransaction(func(tx) error { return dbw.persistEpochData(tx, ...) })
returnOfOwnTransaction(outcome, result) == outcome

\* mutant: the running deposit index is the field of the values itself
valuesAfterBuildDbEpoch_SharedIndex(values, depositIndex) ==
  IF values = <<>> THEN values
  ELSE <<[values[1] EXCEPT !.FirstDepositIndex = depositIndex[1]]>>

\* depositIndexField := epochStatsValues.FirstDepositIndex;
\* depositIndex = &depositIndexField: the running index is a copy of the
\* field, which the values keep
valuesAfterBuildDbEpoch(values, depositIndex) == values

\* what the nil-transaction call leaves, r being what the call with the
\* transaction it opened did: one transaction, its outcome returned
afterOwnTransaction(r, values, fault) ==
  [result |-> returnOfOwnTransaction(
                transactionResult(r.result, fault /= "Commit"), r.result),
   tx |-> r.tx,
   committed |-> RunDBTransaction(r.tx, transactionResult(r.result, fault /= "Commit")),
   opened |-> 1,
   dbEpoch |-> r.dbEpoch,
   built |-> r.built,
   flagged |-> r.flagged,
   failedInserts |-> r.failedInserts,
   values |-> valuesAfterBuildDbEpoch(values, r.depositIndex)]

\* persistEpochData(nil, ...): if tx == nil { return db.RunDBTransaction(...) }
persistEpochData(epoch, blocks, values, fault) ==
  afterOwnTransaction(persistEpochDataIn(EmptyTx, epoch, blocks, values, fault),
                      values, fault)

(***************************************************************************)
(* State                                                                   *)
(***************************************************************************)
VARIABLES
  call,             \* the last writer call: operation and arguments
  ret,              \* what it returned: "nil", "error", "panic" ("none" before)
  tx,               \* the rows it inserted through its transaction
  db,               \* the rows that transaction committed
  built,            \* the Deposit rows buildDbDeposits returned during it
  isInFinalizedDb,  \* the roots of the blocks whose flag it set
  failedInserts,    \* the number of inserts that failed during it
  opened,           \* the number of transactions it opened itself
  statsAfter        \* the epoch stats values it was given, as it left them

writerVars ==
  <<call, ret, tx, db, built, isInFinalizedDb, failedInserts, opened, statsAfter>>

VARIABLES
  slashBlock,       \* the block handed to buildDbSlashings
  slashArgs,        \* its other arguments (orphaned, overrideForkId)
  slashRows         \* the rows it returned (<<>> before the call)

slashVars == <<slashBlock, slashArgs, slashRows>>

VARIABLES
  syncEpoch,        \* the next epoch persistSyncAssignments is called for
  syncAssignments,  \* the committed rows of the sync_assignments table
  syncLog           \* one entry per call made, in call order

syncVars == <<syncEpoch, syncAssignments, syncLog>>

VARIABLES
  startPc,          \* where StartIndexer stands: "notStarted", "forks",
                    \* "duties", "aggregations", "blocks", "clients", "started"
  startCalls,       \* the calls of StartIndexer made so far
  indexer,          \* the Indexer's own fields
  pruneStateDb,     \* the epoch stored under the key indexer.prunestate
  recoveryLog,      \* the records the database has delivered so far
  forkCache,        \* the forks of the fork cache
  epochCache,       \* the epoch cache: <<epoch, dependentRoot>> -> EpochStats
  blockCache,       \* the block cache: root -> Block
  restoreWorkers,   \* the duty records of the restore goroutines in flight
  started           \* what StartIndexer has started

startVars ==
  <<startPc, startCalls, indexer, pruneStateDb, recoveryLog, forkCache,
    epochCache, blockCache, restoreWorkers, started>>

VARIABLES
  loop,             \* the goroutines of runIndexerLoop: those in the select
                    \* loop, those sleeping in the recover handler, and
                    \* whether an unrecovered panic has ended the process
  finalityChannel,  \* the events waiting in finalitySubscription.Channel()
  wallclockChannel, \* the events waiting in wallclockSubscription.Channel()
  clockSlot,        \* the slot of the wall clock
  published,        \* the number of finality events published so far
  handled,          \* the finality events taken by the loop, in this order
  lastHandled,      \* what the handling of the last event taken did
  pruneRuns         \* the epochs a prune pass has run in

loopVars ==
  <<loop, finalityChannel, wallclockChannel, clockSlot, published, handled,
    lastHandled, pruneRuns>>

VARIABLES
  wallclockCall,    \* the wall-clock prune decision taken on its own
  newIndexerCall,   \* NewIndexer called on its own: configuration, result
  minInMemoryCall   \* getMinInMemorySlot called on its own: cursors, result

pureVars == <<wallclockCall, newIndexerCall, minInMemoryCall>>

vars == <<writerVars, slashVars, syncVars, startVars, loopVars, pureVars>>

WriterInit ==
  /\ call = [op |-> "none"]
  /\ ret = "none"
  /\ tx = EmptyTx
  /\ db = EmptyTx
  /\ built = <<>>
  /\ isInFinalizedDb = {}
  /\ failedInserts = 0
  /\ opened = 0
  /\ statsAfter = <<>>

SlashingsIdle ==
  /\ slashBlock = [Root |-> <<0, 0, <<>>>>, Slot |-> 0, forkId |-> 0, body |-> <<>>]
  /\ slashArgs = [orphaned |-> FALSE, overrideForkId |-> <<>>, called |-> FALSE]
  /\ slashRows = <<>>

SyncInit ==
  /\ syncEpoch = 0
  /\ syncAssignments = {}
  /\ syncLog = <<>>

\* NewIndexer: nothing is running and the caches are empty; the database
\* holds any prune state
NewIndexer ==
  [running |-> FALSE, lastFinalizedEpoch |-> 0, lastPrunedEpoch |-> 0,
   lastPruneRunEpoch |-> 0, finalitySubscription |-> <<>>,
   wallclockSubscription |-> <<>>]

IndexerInit ==
  /\ startPc = "notStarted"
  /\ startCalls = 0
  /\ indexer = NewIndexer
  /\ recoveryLog = [forks |-> <<>>, duties |-> <<>>, epochs |-> <<>>, blocks |-> <<>>]
  /\ forkCache = {}
  /\ epochCache = <<>>
  /\ blockCache = <<>>
  /\ restoreWorkers = {}
  /\ started = [clients |-> {}, loops |-> 0, synchronizer |-> <<>>]

\* before StartIndexer: no loop goroutine, nothing subscribed, the wall
\* clock at the first slot of the current epoch
NoEventHandled ==
  [kind |-> "none", err |-> FALSE, panic |-> "none", pruned |-> FALSE,
   prunedBefore |-> 0, persistedBefore |-> 0, slot |-> 0]

LoopInit ==
  /\ loop = [instances |-> 0, recovering |-> 0, crashed |-> FALSE]
  /\ finalityChannel = <<>>
  /\ wallclockChannel = <<>>
  /\ clockSlot = EpochStartSlot(CurrentEpoch)
  /\ published = 0
  /\ handled = <<>>
  /\ lastHandled = NoEventHandled
  /\ pruneRuns = {}

PureIdle ==
  /\ wallclockCall = [called |-> FALSE]
  /\ newIndexerCall = [called |-> FALSE]
  /\ minInMemoryCall = [called |-> FALSE]

\* persistEpochData(nil, epoch, blocks, epochStats, epochVotes): opens the
\* transaction itself; db holds what that transaction committed
PersistEpochData ==
  /\ call.op = "none"
  /\ \E epoch \in Epochs, blocks \in BlockLists, values \in StatsOptions,
        fault \in TxFaults :
    LET r == persistEpochData(epoch, blocks, values, fault)
    IN /\ call' = [op |-> "persistEpochData", epoch |-> epoch, blocks |-> blocks,
                   values |-> values, fault |-> fault]
       /\ ret' = r.result
       /\ tx' = r.tx
       /\ db' = r.committed
       /\ built' = r.built
       /\ isInFinalizedDb' = r.flagged
       /\ failedInserts' = r.failedInserts
       /\ opened' = r.opened
       /\ statsAfter' = r.values
       /\ UNCHANGED <<slashVars, syncVars, startVars, loopVars, pureVars>>

\* persistBlockData(tx, block, epochStats, depositIndex, orphaned,
\* overrideForkId) called on its own, inside a transaction of the caller that
\* commits when it returns nil
PersistBlockData ==
  /\ call.op = "none"
  /\ \E block \in BlockPool, orphaned \in BOOLEAN,
        overrideForkId \in {<<>>} \cup { <<f>> : f \in ForkIds },
        values \in StatsOptions, fault \in DbFaults :
    LET r == persistBlockData(EmptyTx, block, firstDepositIndex(values), orphaned,
                              overrideForkId, fault)
    IN /\ call' = [op |-> "persistBlockData", block |-> block,
                   orphaned |-> orphaned, overrideForkId |-> overrideForkId,
                   values |-> values, fault |-> fault]
       /\ ret' = r.result
       /\ tx' = r.tx
       /\ db' = RunDBTransaction(r.tx, r.result)
       /\ built' = r.built
       /\ isInFinalizedDb' = IF r.flagged THEN {block.Root} ELSE {}
       /\ failedInserts' = IF r.result = "error" THEN 1 ELSE 0
       /\ opened' = 0
       /\ statsAfter' = values
       /\ UNCHANGED <<slashVars, syncVars, startVars, loopVars, pureVars>>

\* the call has returned and its transaction is closed: the writer is idle
\* again (the controller makes one writer call at a time)
WriterReturn ==
  /\ call.op /= "none"
  /\ call' = [op |-> "none"]
  /\ ret' = "none"
  /\ tx' = EmptyTx
  /\ db' = EmptyTx
  /\ built' = <<>>
  /\ isInFinalizedDb' = {}
  /\ failedInserts' = 0
  /\ opened' = 0
  /\ statsAfter' = <<>>
  /\ UNCHANGED <<slashVars, syncVars, startVars, loopVars, pureVars>>

Init ==
  /\ WriterInit /\ SlashingsIdle /\ SyncInit /\ IndexerInit /\ LoopInit /\ PureIdle
  /\ pruneStateDb = 0

Next == PersistEpochData \/ PersistBlockData \/ WriterReturn

Spec == Init /\ [][Next]_vars

(***************************************************************************)
(* dbWriter.persistSyncAssignments, called once per epoch in ascending     *)
(* epoch order, each call in a transaction of its own                      *)
(***************************************************************************)
\* db.IsSyncCommitteeSynchronized(period): the sync_assignments table holds
\* a row of the period
IsSyncCommitteeSynchronized(period) ==
  \E row \in syncAssignments : row.Period = period

syncPeriod(epoch) == epoch \div EpochsPerSyncCommitteePeriod

isStartOfPeriod(epoch) ==
  epoch = syncPeriod(epoch) * EpochsPerSyncCommitteePeriod

\* mutant: a period is never taken for synchronized
syncAlreadySynchronized_Never(startOfPeriod, synchronized) == FALSE

\* if !isStartOfPeriod && db.IsSyncCommitteeSynchronized(uint64(period))
syncAlreadySynchronized(startOfPeriod, synchronized) ==
  ~startOfPeriod /\ synchronized

\* the rows built from epochStatsValues.SyncCommitteeDuties
buildSyncAssignments(period, values) ==
  [i \in 1 .. Len(values[1].SyncCommitteeDuties) |->
     [Period |-> period, Index |-> i - 1,
      Validator |-> values[1].SyncCommitteeDuties[i]]]

\* the rows persistSyncAssignments inserted into the transaction, and
\* whether it returned an error
persistSyncAssignments(epoch, values, fault) ==
  IF epoch < AltairForkEpoch THEN [rows |-> <<>>, err |-> FALSE]
  ELSE IF values = <<>> THEN [rows |-> <<>>, err |-> FALSE]
  ELSE IF syncAlreadySynchronized(isStartOfPeriod(epoch),
                                  IsSyncCommitteeSynchronized(syncPeriod(epoch)))
       THEN [rows |-> <<>>, err |-> FALSE]
  ELSE IF InsertOk("InsertSyncAssignments", fault)
       THEN [rows |-> buildSyncAssignments(syncPeriod(epoch), values), err |-> FALSE]
       ELSE [rows |-> <<>>, err |-> TRUE]

\* the log entry and the table after a call that returned r in a
\* transaction that commits (commit) or is rolled back
syncCallEntry(epoch, values, r, commit) ==
  [epoch |-> epoch, hasValues |-> values /= <<>>, inserted |-> r.rows,
   committed |-> r.rows /= <<>> /\ commit]

PersistSyncAssignments ==
  /\ syncEpoch < MaxSyncEpoch
  /\ \E values \in StatsOptions, fault \in {"none", "InsertSyncAssignments"},
        commit \in BOOLEAN :
       LET r == persistSyncAssignments(syncEpoch, values, fault)
       IN /\ syncLog' = Append(syncLog, syncCallEntry(syncEpoch, values, r, commit))
          /\ syncAssignments' =
               IF commit /\ ~r.err
               THEN syncAssignments \cup { r.rows[i] : i \in 1 .. Len(r.rows) }
               ELSE syncAssignments
  /\ syncEpoch' = syncEpoch + 1
  /\ UNCHANGED <<writerVars, slashVars, startVars, loopVars, pureVars>>

NextSync == PersistSyncAssignments

SpecSync == Init /\ [][NextSync]_vars

(***************************************************************************)
(* Indexer.StartIndexer: the restart recovery.  The records of the         *)
(* recovery log are chosen when the database delivers them; a record's key *)
(* (a block's root, a duty's dependent root) is its position in the log.   *)
(***************************************************************************)
\* chainState.GetFinalizedCheckpoint() and chainState.GetFinalizedSlot()
GetFinalizedCheckpoint == FinalizedEpoch

GetFinalizedSlot == EpochStartSlot(FinalizedEpoch)

\* processingLimiter := make(chan bool, 10)
ProcessingLimit == 10

\* SSZ payloads: a payload is the tag of its type followed by the content;
\* a corrupt payload is cut short.  Unmarshalling returns <<>> for an error
\* and <<value>> otherwise.
MarshalSSZ(tag, content) == <<tag, content>>

CorruptSSZ(tag) == <<tag>>

UnmarshalSSZ(tag, ssz) ==
  IF Len(ssz) = 2 /\ ssz[1] = tag THEN <<ssz[2]>> ELSE <<>>

\* the records the database may deliver
RecordEpochs == FinalizedEpoch - 1 .. FinalizedEpoch + 1

RecordSlots == GetFinalizedSlot - 1 .. GetFinalizedSlot + 1

UnfinalizedForkRecords ==
  { [ForkId |-> 2, BaseSlot |-> s] : s \in {GetFinalizedSlot - 1, GetFinalizedSlot + 1} }

UnfinalizedDutyRecords(root) ==
  UNION { { [Epoch |-> e, DependentRoot |-> root, DutiesSSZ |-> d] :
              d \in {MarshalSSZ("duties", e), CorruptSSZ("duties")} } :
          e \in RecordEpochs }

UnfinalizedEpochRecords ==
  { [Epoch |-> e, DependentRoot |-> r] :
      e \in RecordEpochs, r \in 1 .. MaxLogRecords }

\* a block record: a header of version 1 that decodes, with a body that
\* decodes or not; a header that does not decode; a header of another version
BlockPayloads(slot) ==
  { <<1, MarshalSSZ("header", slot), MarshalSSZ("block", slot)>>,
    <<1, MarshalSSZ("header", slot), CorruptSSZ("block")>>,
    <<1, CorruptSSZ("header"), MarshalSSZ("block", slot)>>,
    <<2, MarshalSSZ("header", slot), MarshalSSZ("block", slot)>> }

UnfinalizedBlockRecords(root) ==
  UNION { { [Root |-> root, Slot |-> sl, ForkId |-> 2, Status |-> st,
             HeaderVer |-> p[1], HeaderSSZ |-> p[2],
             BlockVer |-> 1, BlockSSZ |-> p[3]] :
              st \in {0, 1}, p \in BlockPayloads(sl) } :
          sl \in RecordSlots }

LogSize ==
  Len(recoveryLog.forks) + Len(recoveryLog.duties)
    + Len(recoveryLog.epochs) + Len(recoveryLog.blocks)

\* a cache with the entry of key set to val
cachePut(cache, key, val) ==
  [k \in DOMAIN cache \cup {key} |-> IF k = key THEN val ELSE cache[k]]

\* db.GetUnfinalizedForks(finalizedSlot): the fork records based at or
\* after the slot
GetUnfinalizedForks(dbForks, finalizedSlot) ==
  { dbForks[i] : i \in { j \in 1 .. Len(dbForks) : dbForks[j].BaseSlot >= finalizedSlot } }

\* epochCache.createOrGetEpochStats(epoch, dependentRoot, false)
createOrGetEpochStats(cache, epoch, dependentRoot) ==
  IF <<epoch, dependentRoot>> \in DOMAIN cache
  THEN cache[<<epoch, dependentRoot>>]
  ELSE [epoch |-> epoch, dependentRoot |-> dependentRoot, values |-> <<>>,
        isInDb |-> FALSE, prunedEpochAggregations |-> <<>>]

\* mutant: duty records exactly at the finalized epoch are skipped too
dutyBelowFinalized_Inclusive(epoch, finalizedEpoch) == epoch <= finalizedEpoch

\* if dbDuty.Epoch < uint64(finalizedEpoch) { return }
dutyBelowFinalized(epoch, finalizedEpoch) == epoch < finalizedEpoch

\* mutant: the stats of the prune cursor's own epoch are pruned too
dutyBelowPruned_Inclusive(epoch, lastPrunedEpoch) == epoch <= lastPrunedEpoch

\* if dbDuty.Epoch < uint64(indexer.lastPrunedEpoch) { epochStats.pruneValues() }
dutyBelowPruned(epoch, lastPrunedEpoch) == epoch < lastPrunedEpoch

\* the restore goroutine of one duty record: epochStats.restoreFromDb, and
\* on success isInDb and pruneValues() below the prune cursor
restoreEpochStats(cache, dbDuty, lastPrunedEpoch) ==
  LET epochStats == createOrGetEpochStats(cache, dbDuty.Epoch, dbDuty.DependentRoot)
      duties == UnmarshalSSZ("duties", dbDuty.DutiesSSZ)
  IN cachePut(cache, <<dbDuty.Epoch, dbDuty.DependentRoot>>,
       IF duties = <<>> THEN epochStats
       ELSE [epochStats EXCEPT
               !.values = <<[dutiesPopulated |->
                               ~dutyBelowPruned(dbDuty.Epoch, lastPrunedEpoch)]>>,
               !.isInDb = TRUE])

\* the callback of StreamUnfinalizedEpochs
restoreEpochAggregation(cache, unfinalizedEpoch) ==
  LET key == <<unfinalizedEpoch.Epoch, unfinalizedEpoch.DependentRoot>>
  IN IF key \notin DOMAIN cache THEN cache
     ELSE [cache EXCEPT ![key].prunedEpochAggregations = Append(@, unfinalizedEpoch)]

\* blockCache.createOrGetBlock(root, slot)
createOrGetBlock(cache, root, slot) ==
  IF root \in DOMAIN cache THEN cache[root]
  ELSE [Root |-> root, Slot |-> slot, forkId |-> 0, processingStatus |-> 0,
        isInUnfinalizedDb |-> FALSE, isInFinalizedDb |-> FALSE,
        header |-> <<>>, block |-> <<>>, blockIndex |-> <<>>]

\* mutant: blocks exactly at the finalized slot are skipped too
blockBelowFinalized_Inclusive(slot, finalizedSlot) == slot <= finalizedSlot

\* if dbBlock.Slot < uint64(finalizedSlot) { return }
blockBelowFinalized(slot, finalizedSlot) == slot < finalizedSlot

\* the body part of the callback: blockBody is what
\* unmarshalVersionedSignedBeaconBlockSSZ returned
restoreBlockBody(block, blockBody) ==
  IF blockBody = <<>> THEN block
  ELSE IF block.processingStatus = 0
       THEN [block EXCEPT !.block = blockBody, !.blockIndex = blockBody]
       ELSE [block EXCEPT !.blockIndex = blockBody, !.isInFinalizedDb = TRUE]

\* the header part of the callback, and the body part after it
restoreBlockHeader(block, dbBlock) ==
  LET header == UnmarshalSSZ("header", dbBlock.HeaderSSZ)
  IN IF dbBlock.HeaderVer /= 1 THEN block
     ELSE IF header = <<>> THEN block
     ELSE restoreBlockBody([block EXCEPT !.header = header],
                           UnmarshalSSZ("block", dbBlock.BlockSSZ))

\* the callback of StreamUnfinalizedBlocks
restoreBlock(cache, dbBlock, finalizedSlot) ==
  IF blockBelowFinalized(dbBlock.Slot, finalizedSlot) THEN cache
  ELSE cachePut(cache, dbBlock.Root,
         restoreBlockHeader(
           [createOrGetBlock(cache, dbBlock.Root, dbBlock.Slot) EXCEPT
              !.forkId = dbBlock.ForkId,
              !.processingStatus = dbBlock.Status,
              !.isInUnfinalizedDb = TRUE],
           dbBlock))

\* mutant: StartIndexer does not look at the running flag
alreadyRunning_Never(running) == FALSE

\* if indexer.running { return }
alreadyRunning(running) == running

\* the prune cursor StartIndexer sets: the persisted prune state, raised to
\* the finalized epoch when it is below it
startPrunedEpoch(persisted, finalizedEpoch) ==
  IF persisted < finalizedEpoch THEN finalizedEpoch ELSE persisted

\* StartIndexer up to its restore of the forks: the cursors.  The
\* transaction of updatePruningState commits (txOk) or fails.
StartIndexer ==
  /\ startPc \in {"notStarted", "started"}
  /\ ~alreadyRunning(indexer.running)
  /\ startCalls < MaxStartCalls
  /\ startCalls' = startCalls + 1
  /\ \E txOk \in BOOLEAN :
       /\ indexer' =
            [indexer EXCEPT
               !.running = TRUE,
               !.lastFinalizedEpoch = GetFinalizedCheckpoint,
               !.lastPrunedEpoch = startPrunedEpoch(pruneStateDb, GetFinalizedCheckpoint),
               !.lastPruneRunEpoch = CurrentEpoch]
       /\ pruneStateDb' =
            IF pruneStateDb < GetFinalizedCheckpoint /\ txOk
            THEN GetFinalizedCheckpoint ELSE pruneStateDb
  /\ startPc' = "forks"
  /\ UNCHANGED <<recoveryLog, forkCache, epochCache, blockCache,
                 restoreWorkers, started>>
  /\ UNCHANGED <<writerVars, slashVars, syncVars, loopVars, pureVars>>

\* if indexer.running { return }
StartIndexerWhileRunning ==
  /\ startPc = "started"
  /\ ~loop.crashed
  /\ alreadyRunning(indexer.running)
  /\ startCalls < MaxStartCalls
  /\ startCalls' = startCalls + 1
  /\ UNCHANGED <<startPc, indexer, pruneStateDb, recoveryLog, forkCache,
                 epochCache, blockCache, restoreWorkers, started>>
  /\ UNCHANGED <<writerVars, slashVars, syncVars, loopVars, pureVars>>

\* restore unfinalized forks from db
RestoreForks ==
  /\ startPc = "forks"
  /\ \E dbForks \in {<<>>} \cup { <<f>> : f \in UnfinalizedForkRecords } :
       /\ LogSize + Len(dbForks) <= MaxLogRecords
       /\ recoveryLog' = [recoveryLog EXCEPT !.forks = dbForks]
       /\ forkCache' = forkCache \cup GetUnfinalizedForks(dbForks, GetFinalizedSlot)
  /\ startPc' = "duties"
  /\ UNCHANGED <<startCalls, indexer, pruneStateDb, epochCache, blockCache,
                 restoreWorkers, started>>
  /\ UNCHANGED <<writerVars, slashVars, syncVars, loopVars, pureVars>>

\* mutant: the limiter never blocks
limiterHasRoom_Unbounded(workers) == TRUE

\* processingLimiter <- true returns: the channel of ProcessingLimit slots
\* has a free slot (a goroutine frees its slot when it ends)
limiterHasRoom(workers) == Cardinality(workers) < ProcessingLimit

\* the callback of StreamUnfinalizedDuties for one record: a goroutine is
\* started once the limiter has room
RestoreDuty ==
  /\ startPc = "duties"
  /\ LogSize < MaxLogRecords
  /\ limiterHasRoom(restoreWorkers)
  /\ \E dbDuty \in UnfinalizedDutyRecords(Len(recoveryLog.duties) + 1) :
       /\ recoveryLog' = [recoveryLog EXCEPT !.duties = Append(@, dbDuty)]
       /\ restoreWorkers' =
            IF dutyBelowFinalized(dbDuty.Epoch, GetFinalizedCheckpoint)
            THEN restoreWorkers ELSE restoreWorkers \cup {dbDuty}
  /\ UNCHANGED <<startPc, startCalls, indexer, pruneStateDb, forkCache,
                 epochCache, blockCache, started>>
  /\ UNCHANGED <<writerVars, slashVars, syncVars, loopVars, pureVars>>

\* one restore goroutine, from createOrGetEpochStats to the release of the
\* limiter
RestoreDutyWorker ==
  /\ \E dbDuty \in restoreWorkers :
       /\ epochCache' = restoreEpochStats(epochCache, dbDuty, indexer.lastPrunedEpoch)
       /\ restoreWorkers' = restoreWorkers \ {dbDuty}
  /\ UNCHANGED <<startPc, startCalls, indexer, pruneStateDb, recoveryLog,
                 forkCache, blockCache, started>>
  /\ UNCHANGED <<writerVars, slashVars, syncVars, loopVars, pureVars>>

\* mutant: StartIndexer goes on without waiting for the goroutines
waitGroupDone_NoWait(workers) == TRUE

\* processingWaitGroup.Wait() returns: every goroutine has called Done()
waitGroupDone(workers) == workers = {}

\* the stream of duties has ended and processingWaitGroup.Wait() returns
DutiesRestored ==
  /\ startPc = "duties"
  /\ waitGroupDone(restoreWorkers)
  /\ startPc' = "aggregations"
  /\ UNCHANGED <<startCalls, indexer, pruneStateDb, recoveryLog, forkCache,
                 epochCache, blockCache, restoreWorkers, started>>
  /\ UNCHANGED <<writerVars, slashVars, syncVars, loopVars, pureVars>>

\* the callback of StreamUnfinalizedEpochs for one record
RestoreEpochAggregation ==
  /\ startPc = "aggregations"
  /\ LogSize < MaxLogRecords
  /\ \E unfinalizedEpoch \in UnfinalizedEpochRecords :
       /\ recoveryLog' = [recoveryLog EXCEPT !.epochs = Append(@, unfinalizedEpoch)]
       /\ epochCache' = restoreEpochAggregation(epochCache, unfinalizedEpoch)
  /\ UNCHANGED <<startPc, startCalls, indexer, pruneStateDb, forkCache,
                 blockCache, restoreWorkers, started>>
  /\ UNCHANGED <<writerVars, slashVars, syncVars, loopVars, pureVars>>

\* the same callback for a long stream of duty records: the n-th record is a
\* decodable record of the epoch after the finalized one
ManyDutyRecords(n) ==
  [Epoch |-> FinalizedEpoch + 1, DependentRoot |-> n,
   DutiesSSZ |-> MarshalSSZ("duties", FinalizedEpoch + 1)]

RestoreDutyOfMany ==
  /\ startPc = "duties"
  /\ Len(recoveryLog.duties) < MaxDutyRecords
  /\ limiterHasRoom(restoreWorkers)
  /\ LET dbDuty == ManyDutyRecords(Len(recoveryLog.duties) + 1)
     IN /\ recoveryLog' = [recoveryLog EXCEPT !.duties = Append(@, dbDuty)]
        /\ restoreWorkers' =
             IF dutyBelowFinalized(dbDuty.Epoch, GetFinalizedCheckpoint)
             THEN restoreWorkers ELSE restoreWorkers \cup {dbDuty}
  /\ UNCHANGED <<startPc, startCalls, indexer, pruneStateDb, forkCache,
                 epochCache, blockCache, started>>
  /\ UNCHANGED <<writerVars, slashVars, syncVars, loopVars, pureVars>>

\* the stream of epoch aggregations has ended
AggregationsRestored ==
  /\ startPc = "aggregations"
  /\ startPc' = "blocks"
  /\ UNCHANGED <<startCalls, indexer, pruneStateDb, recoveryLog, forkCache,
                 epochCache, blockCache, restoreWorkers, started>>
  /\ UNCHANGED <<writerVars, slashVars, syncVars, loopVars, pureVars>>

\* the callback of StreamUnfinalizedBlocks for one record
RestoreBlock ==
  /\ startPc = "blocks"
  /\ LogSize < MaxLogRecords
  /\ \E dbBlock \in UnfinalizedBlockRecords(Len(recoveryLog.blocks) + 1) :
       /\ recoveryLog' = [recoveryLog EXCEPT !.blocks = Append(@, dbBlock)]
       /\ blockCache' = restoreBlock(blockCache, dbBlock, GetFinalizedSlot)
  /\ UNCHANGED <<startPc, startCalls, indexer, pruneStateDb, forkCache,
                 epochCache, restoreWorkers, started>>
  /\ UNCHANGED <<writerVars, slashVars, syncVars, loopVars, pureVars>>

\* the stream of blocks has ended: the clients start indexing, the events
\* are subscribed to, the controller loop and the synchronizer are started,
\* and StartIndexer returns
StartIndexing ==
  /\ startPc = "blocks"
  /\ started' = [clients |-> started.clients \cup Clients,
                 loops |-> started.loops + 1,
                 synchronizer |-> Append(started.synchronizer, indexer.lastFinalizedEpoch)]
  /\ indexer' = [indexer EXCEPT
                   !.finalitySubscription = <<[capacity |-> 10]>>,
                   !.wallclockSubscription = <<[capacity |-> 1]>>]
  /\ startPc' = "started"
  /\ loop' = [loop EXCEPT !.instances = @ + 1]
  /\ UNCHANGED <<startCalls, pruneStateDb, recoveryLog, forkCache,
                 epochCache, blockCache, restoreWorkers>>
  /\ UNCHANGED <<finalityChannel, wallclockChannel, clockSlot, published,
                 handled, lastHandled, pruneRuns>>
  /\ UNCHANGED <<writerVars, slashVars, syncVars, pureVars>>

InitStart ==
  /\ WriterInit /\ SlashingsIdle /\ SyncInit /\ IndexerInit /\ LoopInit /\ PureIdle
  /\ pruneStateDb \in 0 .. FinalizedEpoch + 1

NextStart ==
  \/ StartIndexer
  \/ StartIndexerWhileRunning
  \/ RestoreForks
  \/ RestoreDuty
  \/ RestoreDutyWorker
  \/ DutiesRestored
  \/ RestoreEpochAggregation
  \/ AggregationsRestored
  \/ RestoreBlock
  \/ StartIndexing

SpecStart == InitStart /\ [][NextStart]_vars

\* the duties phase of StartIndexer on a database with many duty records:
\* from the state in which the cursors are set and no fork was restored
InitRestoreWorkers ==
  /\ WriterInit /\ SlashingsIdle /\ SyncInit /\ LoopInit /\ PureIdle
  /\ startPc = "duties"
  /\ startCalls = 1
  /\ pruneStateDb = GetFinalizedCheckpoint
  /\ indexer = [NewIndexer EXCEPT
                  !.running = TRUE,
                  !.lastFinalizedEpoch = GetFinalizedCheckpoint,
                  !.lastPrunedEpoch = startPrunedEpoch(pruneStateDb, GetFinalizedCheckpoint),
                  !.lastPruneRunEpoch = CurrentEpoch]
  /\ recoveryLog = [forks |-> <<>>, duties |-> <<>>, epochs |-> <<>>, blocks |-> <<>>]
  /\ forkCache = {}
  /\ epochCache = <<>>
  /\ blockCache = <<>>
  /\ restoreWorkers = {}
  /\ started = [clients |-> {}, loops |-> 0, synchronizer |-> <<>>]

NextRestoreWorkers ==
  \/ RestoreDutyOfMany
  \/ RestoreDutyWorker
  \/ DutiesRestored

SpecRestoreWorkers == InitRestoreWorkers /\ [][NextRestoreWorkers]_vars

(***************************************************************************)
(* Indexer.runIndexerLoop: the controller loop, from the state in which    *)
(* StartIndexer has returned                                               *)
(***************************************************************************)
\* chainState.EpochOfSlot, chainState.SlotToSlotIndex for a chain of
\* slotsPerEpoch slots per epoch
EpochOfSlot(slotsPerEpoch, slot) == slot \div slotsPerEpoch

SlotToSlotIndex(slotsPerEpoch, slot) == slot % slotsPerEpoch

\* the last slot the wall clock is followed to: the end of the epoch after
\* the current one
MaxClockSlot == EpochStartSlot(CurrentEpoch + 2) - 1

\* the finalized epochs a finality event may carry
FinalityEpochs == FinalizedEpoch .. FinalizedEpoch + 2

\* the values a panic may carry: a value that implements error (a runtime
\* error, an error passed to panic) or any other value (a string)
PanicValues == {"error", "string"}

\* slotProgress := uint8(100 / SlotsPerEpoch * uint64(slotIndex)): an
\* integer division, then the product, cut to 8 bits
slotProgress(slotsPerEpoch, slotIndex) ==
  ((100 \div slotsPerEpoch) * slotIndex) % 256

\* mutant: the prune pass runs at any slot of a later epoch
wallclockShouldPrune_AnySlot(epoch, lastPruneRunEpoch, progress) ==
  epoch > lastPruneRunEpoch

\* mutant: the pass runs again in the epoch of the last pass
wallclockShouldPrune_SameEpochToo(epoch, lastPruneRunEpoch, progress) ==
  epoch >= lastPruneRunEpoch /\ progress >= 50

\* if epoch > indexer.lastPruneRunEpoch && slotProgress >= 50
wallclockShouldPrune(epoch, lastPruneRunEpoch, progress) ==
  epoch > lastPruneRunEpoch /\ progress >= 50

\* the decision of the wall-clock case for a slot event
wallclockPrune(slotsPerEpoch, slot, lastPruneRunEpoch) ==
  wallclockShouldPrune(
    EpochOfSlot(slotsPerEpoch, slot), lastPruneRunEpoch,
    slotProgress(slotsPerEpoch, SlotToSlotIndex(slotsPerEpoch, slot)))

\* indexer.processFinalityEvent(finalityEvent): it finalizes epoch after
\* epoch from lastFinalizedEpoch up to the event's epoch, moving
\* lastFinalizedEpoch with each, and returns an error (or panics) where it
\* stops early; without error every epoch up to the event's is finalized
processFinalityOutcomes(lastFinalizedEpoch, eventEpoch) ==
  LET target == IF eventEpoch > lastFinalizedEpoch THEN eventEpoch
                ELSE lastFinalizedEpoch
  IN { [finalized |-> target, err |-> FALSE, panic |-> "none"] }
       \cup { [finalized |-> e, err |-> TRUE, panic |-> "none"] :
                e \in lastFinalizedEpoch .. target }
       \cup { [finalized |-> e, err |-> FALSE, panic |-> v] :
                e \in lastFinalizedEpoch .. target, v \in PanicValues }

\* mutant: the cursor moves only when processFinalityEvent returned no error
finalityMovesCursor_UnlessError(lastFinalizedEpoch, lastPrunedEpoch, err) ==
  ~err /\ lastFinalizedEpoch > lastPrunedEpoch

\* if indexer.lastFinalizedEpoch > indexer.lastPrunedEpoch
finalityMovesCursor(lastFinalizedEpoch, lastPrunedEpoch, err) ==
  lastFinalizedEpoch > lastPrunedEpoch

\* the finality case after processFinalityEvent returned: the indexer's
\* fields, o being the outcome of processFinalityEvent
afterFinalityEvent(ix, o, currentEpoch) ==
  [ix EXCEPT
     !.lastFinalizedEpoch = o.finalized,
     !.lastPrunedEpoch =
        IF finalityMovesCursor(o.finalized, ix.lastPrunedEpoch, o.err)
        THEN o.finalized ELSE @,
     !.lastPruneRunEpoch = currentEpoch]

\* the persisted prune state after the finality case, the transaction of
\* updatePruningState committing (txOk) or failing
persistedAfterFinalityEvent(ix, persisted, o, txOk) ==
  IF finalityMovesCursor(o.finalized, ix.lastPrunedEpoch, o.err) /\ txOk
  THEN o.finalized ELSE persisted

\* mutant: the panicking goroutine goes on after its handler ran
instancesAfterPanic_KeepsRunning(instances) == instances

\* a panic unwinds runIndexerLoop: the goroutine leaves the select loop
instancesAfterPanic(instances) == instances - 1

\* the goroutines after a panic with value v in the handling of an event:
\* the deferred function recovers it, and its err.(error) panics in turn,
\* unrecovered, when v is not an error
loopAfterPanic(l, v) ==
  IF v = "error"
  THEN [l EXCEPT !.instances = instancesAfterPanic(@), !.recovering = @ + 1]
  ELSE [instances |-> 0, recovering |-> 0, crashed |-> TRUE]

\* the state StartIndexer leaves for an empty recovery log
InitLoop ==
  /\ WriterInit /\ SlashingsIdle /\ SyncInit /\ PureIdle
  /\ startPc = "started"
  /\ startCalls = 1
  /\ pruneStateDb \in 0 .. FinalizedEpoch + 1
  /\ indexer =
       [running |-> TRUE,
        lastFinalizedEpoch |-> GetFinalizedCheckpoint,
        lastPrunedEpoch |-> startPrunedEpoch(pruneStateDb, GetFinalizedCheckpoint),
        lastPruneRunEpoch |-> CurrentEpoch,
        finalitySubscription |-> <<[capacity |-> 10]>>,
        wallclockSubscription |-> <<[capacity |-> 1]>>]
  /\ recoveryLog = [forks |-> <<>>, duties |-> <<>>, epochs |-> <<>>, blocks |-> <<>>]
  /\ forkCache = {}
  /\ epochCache = <<>>
  /\ blockCache = <<>>
  /\ restoreWorkers = {}
  /\ started = [clients |-> Clients, loops |-> 1,
                synchronizer |-> <<GetFinalizedCheckpoint>>]
  /\ loop = [instances |-> 1, recovering |-> 0, crashed |-> FALSE]
  /\ finalityChannel = <<>>
  /\ wallclockChannel = <<>>
  /\ clockSlot = EpochStartSlot(CurrentEpoch)
  /\ published = 0
  /\ handled = <<>>
  /\ lastHandled = NoEventHandled
  /\ pruneRuns = {}

\* the consensus pool publishes a finality event; the subscription's
\* channel takes it while it has room
PublishFinalityEvent ==
  /\ ~loop.crashed
  /\ indexer.finalitySubscription /= <<>>
  /\ published < MaxFinalityEvents
  /\ Len(finalityChannel) < indexer.finalitySubscription[1].capacity
  /\ \E epoch \in FinalityEpochs :
       finalityChannel' = Append(finalityChannel, [seq |-> published + 1, epoch |-> epoch])
  /\ published' = published + 1
  /\ UNCHANGED <<loop, wallclockChannel, clockSlot, handled, lastHandled, pruneRuns>>
  /\ UNCHANGED <<writerVars, slashVars, syncVars, startVars, pureVars>>

\* the wall clock reaches the next slot; the slot event is dropped when the
\* subscription's channel is full
PublishWallclockSlot ==
  /\ ~loop.crashed
  /\ indexer.wallclockSubscription /= <<>>
  /\ clockSlot < MaxClockSlot
  /\ clockSlot' = clockSlot + 1
  /\ wallclockChannel' =
       IF Len(wallclockChannel) < indexer.wallclockSubscription[1].capacity
       THEN Append(wallclockChannel, clockSlot + 1) ELSE wallclockChannel
  /\ UNCHANGED <<loop, finalityChannel, published, handled, lastHandled, pruneRuns>>
  /\ UNCHANGED <<writerVars, slashVars, syncVars, startVars, pureVars>>

\* case finalityEvent := <-indexer.finalitySubscription.Channel()
HandleFinalityEvent ==
  /\ loop.instances > 0
  /\ finalityChannel /= <<>>
  /\ finalityChannel' = Tail(finalityChannel)
  /\ handled' = Append(handled, Head(finalityChannel).seq)
  /\ \E o \in processFinalityOutcomes(indexer.lastFinalizedEpoch,
                                      Head(finalityChannel).epoch),
        txOk \in BOOLEAN :
       /\ lastHandled' =
            [kind |-> "finality", err |-> o.err, panic |-> o.panic,
             pruned |-> o.panic = "none",
             prunedBefore |-> indexer.lastPrunedEpoch,
             persistedBefore |-> pruneStateDb,
             slot |-> clockSlot]
       /\ IF o.panic = "none"
          THEN /\ indexer' = afterFinalityEvent(
                               indexer, o, EpochOfSlot(SlotsPerEpoch, clockSlot))
               /\ pruneStateDb' = persistedAfterFinalityEvent(
                                    indexer, pruneStateDb, o, txOk)
               /\ loop' = loop
               /\ pruneRuns' = pruneRuns \cup {EpochOfSlot(SlotsPerEpoch, clockSlot)}
          ELSE /\ indexer' = [indexer EXCEPT !.lastFinalizedEpoch = o.finalized]
               /\ pruneStateDb' = pruneStateDb
               /\ loop' = loopAfterPanic(loop, o.panic)
               /\ pruneRuns' = pruneRuns
  /\ UNCHANGED <<wallclockChannel, clockSlot, published>>
  /\ UNCHANGED <<startPc, startCalls, recoveryLog, forkCache, epochCache,
                 blockCache, restoreWorkers, started>>
  /\ UNCHANGED <<writerVars, slashVars, syncVars, pureVars>>

\* case slotEvent := <-indexer.wallclockSubscription.Channel(); the prune
\* pass returns or panics
HandleWallclockEvent ==
  /\ loop.instances > 0
  /\ wallclockChannel /= <<>>
  /\ wallclockChannel' = Tail(wallclockChannel)
  /\ LET slot == Head(wallclockChannel)
         prune == wallclockPrune(SlotsPerEpoch, slot, indexer.lastPruneRunEpoch)
     IN \E panic \in IF prune THEN {"none"} \cup PanicValues ELSE {"none"} :
          /\ lastHandled' =
               [kind |-> "wallclock", err |-> FALSE, panic |-> panic,
                pruned |-> prune /\ panic = "none",
                prunedBefore |-> indexer.lastPrunedEpoch,
                persistedBefore |-> pruneStateDb,
                slot |-> slot]
          /\ indexer' =
               IF prune /\ panic = "none"
               THEN [indexer EXCEPT !.lastPruneRunEpoch = EpochOfSlot(SlotsPerEpoch, slot)]
               ELSE indexer
          /\ pruneRuns' =
               IF prune /\ panic = "none"
               THEN pruneRuns \cup {EpochOfSlot(SlotsPerEpoch, slot)}
               ELSE pruneRuns
          /\ loop' = IF panic = "none" THEN loop ELSE loopAfterPanic(loop, panic)
  /\ UNCHANGED <<finalityChannel, clockSlot, published, handled>>
  /\ UNCHANGED <<startPc, startCalls, pruneStateDb, recoveryLog, forkCache,
                 epochCache, blockCache, restoreWorkers, started>>
  /\ UNCHANGED <<writerVars, slashVars, syncVars, pureVars>>

\* the recover handler, after its sleep of 10 seconds: go runIndexerLoop()
RestartIndexerLoop ==
  /\ ~loop.crashed
  /\ loop.recovering > 0
  /\ loop' = [loop EXCEPT !.recovering = @ - 1, !.instances = @ + 1]
  /\ UNCHANGED <<finalityChannel, wallclockChannel, clockSlot, published,
                 handled, lastHandled, pruneRuns>>
  /\ UNCHANGED <<writerVars, slashVars, syncVars, startVars, pureVars>>

NextLoop ==
  \/ PublishFinalityEvent
  \/ PublishWallclockSlot
  \/ HandleFinalityEvent
  \/ HandleWallclockEvent
  \/ RestartIndexerLoop
  \/ StartIndexerWhileRunning

SpecLoop == InitLoop /\ [][NextLoop]_vars

\* the goroutine scheduler runs the recover handler to its end
SpecLoopLive == SpecLoop /\ WF_vars(RestartIndexerLoop)

(***************************************************************************)
(* The wall-clock case of runIndexerLoop taken on its own, for any number  *)
(* of slots per epoch                                                      *)
(***************************************************************************)
WallclockPruneDecision ==
  /\ ~wallclockCall.called
  /\ \E slotsPerEpoch \in 1 .. MaxSlotsPerEpochValue, lastPruneRunEpoch \in 0 .. 1 :
       \E slot \in 0 .. 2 * slotsPerEpoch - 1 :
         wallclockCall' =
           [called |-> TRUE, slotsPerEpoch |-> slotsPerEpoch, slot |-> slot,
            lastPruneRunEpoch |-> lastPruneRunEpoch,
            pruned |-> wallclockPrune(slotsPerEpoch, slot, lastPruneRunEpoch)]
  /\ UNCHANGED <<newIndexerCall, minInMemoryCall>>
  /\ UNCHANGED <<writerVars, slashVars, syncVars, startVars, loopVars>>

WallclockReturn ==
  /\ wallclockCall.called
  /\ wallclockCall' = [called |-> FALSE]
  /\ UNCHANGED <<newIndexerCall, minInMemoryCall>>
  /\ UNCHANGED <<writerVars, slashVars, syncVars, startVars, loopVars>>

NextWallclock == WallclockPruneDecision \/ WallclockReturn

SpecWallclock == Init /\ [][NextWallclock]_vars

(***************************************************************************)
(* Indexer.getMinInMemoryEpoch and getMinInMemorySlot taken on their own,  *)
(* for any two cursors; phase0.Epoch is an unsigned integer, here of       *)
(* MaxUint + 1 values                                                      *)
(***************************************************************************)
\* a - b and a + b in unsigned arithmetic
uintSub(a, b) == (a - b) % (MaxUint + 1)

uintAdd(a, b) == (a + b) % (MaxUint + 1)

\* mutant: the prune cursor is not compared with 0
prunedEpochApplies_NoZeroCheck(lastPrunedEpoch, minInMemoryEpoch) ==
  lastPrunedEpoch >= minInMemoryEpoch

\* if indexer.lastPrunedEpoch > 0 && indexer.lastPrunedEpoch > minInMemoryEpoch
prunedEpochApplies(lastPrunedEpoch, minInMemoryEpoch) ==
  lastPrunedEpoch > 0 /\ lastPrunedEpoch > minInMemoryEpoch

getMinInMemoryEpoch(lastFinalizedEpoch, lastPrunedEpoch) ==
  LET minInMemoryEpoch == IF lastFinalizedEpoch > 0
                          THEN uintSub(lastFinalizedEpoch, 1) ELSE 0
  IN IF prunedEpochApplies(lastPrunedEpoch, minInMemoryEpoch)
     THEN uintSub(lastPrunedEpoch, 1) ELSE minInMemoryEpoch

\* chainState.EpochToSlot(indexer.getMinInMemoryEpoch() + 1)
getMinInMemorySlot(lastFinalizedEpoch, lastPrunedEpoch) ==
  EpochStartSlot(uintAdd(getMinInMemoryEpoch(lastFinalizedEpoch, lastPrunedEpoch), 1))

GetMinInMemorySlot ==
  /\ ~minInMemoryCall.called
  /\ \E lastFinalizedEpoch \in 0 .. MaxUint, lastPrunedEpoch \in 0 .. MaxUint :
       minInMemoryCall' =
         [called |-> TRUE, lastFinalizedEpoch |-> lastFinalizedEpoch,
          lastPrunedEpoch |-> lastPrunedEpoch,
          epoch |-> getMinInMemoryEpoch(lastFinalizedEpoch, lastPrunedEpoch),
          slot |-> getMinInMemorySlot(lastFinalizedEpoch, lastPrunedEpoch)]
  /\ UNCHANGED <<wallclockCall, newIndexerCall>>
  /\ UNCHANGED <<writerVars, slashVars, syncVars, startVars, loopVars>>

MinInMemoryReturn ==
  /\ minInMemoryCall.called
  /\ minInMemoryCall' = [called |-> FALSE]
  /\ UNCHANGED <<wallclockCall, newIndexerCall>>
  /\ UNCHANGED <<writerVars, slashVars, syncVars, startVars, loopVars>>

NextMinInMemory == GetMinInMemorySlot \/ MinInMemoryReturn

SpecMinInMemory == Init /\ [][NextMinInMemory]_vars

(***************************************************************************)
(* NewIndexer: the configuration values it keeps                           *)
(***************************************************************************)
\* if v < 2 { v = 2 }
atLeastTwo(v) == IF v < 2 THEN 2 ELSE v

\* uint16(v)
toUint16(v) == v % ConfigFieldRange

\* the configuration fields of the indexer NewIndexer returns
newIndexerConfig(config) ==
  [inMemoryEpochs |-> atLeastTwo(config.InMemoryEpochs),
   cachePersistenceDelay |-> atLeastTwo(config.CachePersistenceDelay),
   maxParallelStateCalls |->
     atLeastTwo(toUint16(config.MaxParallelValidatorSetRequests))]

\* consensusPool.GetChainState().GetSpecs(): the chain's spec values
GetSpecs ==
  [k \in {"ALTAIR_FORK_EPOCH", "SLOTS_PER_EPOCH"} |->
     IF k = "SLOTS_PER_EPOCH" THEN SlotsPerEpoch ELSE AltairForkEpoch]

\* the keys of a document in the order yaml writes them
YamlKeys == <<"ALTAIR_FORK_EPOCH", "SLOTS_PER_EPOCH">>

\* yaml.Marshal(specs): the document, one <<key, value>> line per entry, and
\* the error; no document comes with an error
yamlMarshal(specs, fails) ==
  IF fails THEN [yaml |-> <<>>, err |-> TRUE]
  ELSE [yaml |-> [i \in 1 .. Len(YamlKeys) |-> <<YamlKeys[i], specs[YamlKeys[i]]>>],
        err |-> FALSE]

\* yaml.Unmarshal(doc, out): the entries of the document are set in out
yamlUnmarshal(doc, out) ==
  [k \in DOMAIN out \cup { doc[i][1] : i \in DOMAIN doc } |->
     IF \E i \in DOMAIN doc : doc[i][1] = k
     THEN doc[CHOOSE i \in DOMAIN doc : doc[i][1] = k][2]
     ELSE out[k]]

\* staticSpec := map[string]any{}; specYaml, err := yaml.Marshal(...);
\* if err != nil { yaml.Unmarshal(specYaml, staticSpec) }
staticSpec(marshalled) ==
  IF marshalled.err THEN yamlUnmarshal(marshalled.yaml, <<>>) ELSE <<>>

NewIndexerCall ==
  /\ ~newIndexerCall.called
  /\ \E i \in ConfiguredValues, c \in ConfiguredValues, r \in ConfiguredRequests,
        marshalFails \in BOOLEAN :
       LET config == [InMemoryEpochs |-> i, CachePersistenceDelay |-> c,
                      MaxParallelValidatorSetRequests |-> r]
           marshalled == yamlMarshal(GetSpecs, marshalFails)
       IN newIndexerCall' =
            [called |-> TRUE, config |-> config, indexer |-> newIndexerConfig(config),
             marshalErr |-> marshalled.err, dynSsz |-> staticSpec(marshalled)]
  /\ UNCHANGED <<wallclockCall, minInMemoryCall>>
  /\ UNCHANGED <<writerVars, slashVars, syncVars, startVars, loopVars>>

NewIndexerReturn ==
  /\ newIndexerCall.called
  /\ newIndexerCall' = [called |-> FALSE]
  /\ UNCHANGED <<wallclockCall, minInMemoryCall>>
  /\ UNCHANGED <<writerVars, slashVars, syncVars, startVars, loopVars>>

NextNewIndexer == NewIndexerCall \/ NewIndexerReturn

SpecNewIndexer == Init /\ [][NextNewIndexer]_vars

(***************************************************************************)
(* buildDbSlashings called on its own, for a block with one attester       *)
(* slashing and any two attestations                                       *)
(***************************************************************************)
SlashingBlock(proposerSlashings, att1, att2) ==
  LET body == [attestations |-> 0, deposits |-> 0, voluntaryExits |-> 0,
               proposerSlashings |-> proposerSlashings,
               attesterSlashings |-> << [att1 |-> att1, att2 |-> att2] >>]
  IN [Root |-> <<0, 0, <<body>>>>, Slot |-> 0, forkId |-> 0, body |-> <<body>>]

BuildDbSlashings ==
  /\ ~slashArgs.called
  /\ \E proposerSlashings \in 0 .. 1, att1 \in IndexedAttestations,
        att2 \in IndexedAttestations, orphaned \in BOOLEAN :
       LET block == SlashingBlock(proposerSlashings, att1, att2)
       IN /\ slashBlock' = block
          /\ slashArgs' = [orphaned |-> orphaned, overrideForkId |-> <<>>,
                           called |-> TRUE]
          /\ slashRows' = buildDbSlashings(block, orphaned, <<>>)
  /\ UNCHANGED <<writerVars, syncVars, startVars, loopVars, pureVars>>

SlashingsReturn ==
  /\ slashArgs.called
  /\ slashBlock' = [Root |-> <<0, 0, <<>>>>, Slot |-> 0, forkId |-> 0, body |-> <<>>]
  /\ slashArgs' = [orphaned |-> FALSE, overrideForkId |-> <<>>, called |-> FALSE]
  /\ slashRows' = <<>>
  /\ UNCHANGED <<writerVars, syncVars, startVars, loopVars, pureVars>>

NextSlashings == BuildDbSlashings \/ SlashingsReturn

SpecSlashings == Init /\ [][NextSlashings]_vars

(***************************************************************************)
(* Properties of the DB writer                                             *)
(***************************************************************************)
StrictlyAscending(blocks) ==
  \A i \in 1 .. Len(blocks) - 1 : blocks[i].Slot < blocks[i + 1].Slot

InEpoch(blocks, epoch) ==
  \A i \in 1 .. Len(blocks) :
    /\ blocks[i].Slot >= epoch * SlotsPerEpoch
    /\ blocks[i].Slot < (epoch + 1) * SlotsPerEpoch

SlotsOfEpoch(epoch) == epoch * SlotsPerEpoch .. (epoch + 1) * SlotsPerEpoch - 1

HasBlockAt(blocks, slot) == \E i \in 1 .. Len(blocks) : blocks[i].Slot = slot

RECURSIVE SumOf(_, _)
SumOf(rows, i) ==
  IF i > Len(rows) THEN 0 ELSE rows[i].AttestationCount + SumOf(rows, i + 1)

\* C1: for a list of blocks of one epoch in strictly ascending slot order,
\* persistEpochData inserts exactly one Slot row per block, Canonical with
\* fork id 0, and the Epoch row it inserts has BlockCount = the number of
\* blocks.
C1_SlotRowPerBlock ==
  (/\ call.op = "persistEpochData"
   /\ StrictlyAscending(call.blocks)
   /\ InEpoch(call.blocks, call.epoch))
  => /\ Len(tx.slots) = Len(call.blocks)
     /\ \A i \in 1 .. Len(tx.slots) :
          /\ tx.slots[i].Root = call.blocks[i].Root
          /\ tx.slots[i].Status = "Canonical"
          /\ tx.slots[i].ForkId = 0
     /\ \A j \in 1 .. Len(tx.epochs) : tx.epochs[j].BlockCount = Len(call.blocks)

\* C2: epoch persistence is atomic: when any insert made for the epoch
\* fails, persistEpochData returns an error (and the transaction rolls
\* back), so no partly persisted epoch is committed.
C2_AtomicEpochPersistence ==
  (call.op = "persistEpochData" /\ failedInserts > 0)
  => (ret = "error" /\ db = EmptyTx)

\* C3: whenever persistEpochData returns without error, for any block list,
\* the Epoch row's BlockCount plus the number of Missing rows inserted for
\* the epoch is SLOTS_PER_EPOCH.
C3_BlockCountPlusMissing ==
  (call.op = "persistEpochData" /\ ret = "nil")
  => /\ Len(db.epochs) = 1
     /\ db.epochs[1].BlockCount + Len(db.missing) = SlotsPerEpoch

\* a successful call with a list that is not in ascending order and holds a
\* block without body: one block counted, one slot missing
C3_Witness ==
  /\ call.op = "persistEpochData"
  /\ ret = "nil"
  /\ Len(call.blocks) = 2
  /\ ~StrictlyAscending(call.blocks)
  /\ \E i \in 1 .. 2 : call.blocks[i].body = <<>>
  /\ db.epochs[1].BlockCount = 1
  /\ Len(db.missing) = SlotsPerEpoch - 1

\* C4 (as claimed): every Slot row written by persistBlockData, for any
\* orphaned flag, overrideForkId and block fork id, is Canonical or Orphaned
\* and has forkId = 0 if and only if it is Canonical.
C4_ForkIdZeroIffCanonical ==
  call.op = "persistBlockData"
  => \A i \in 1 .. Len(tx.slots) :
       /\ tx.slots[i].Status \in {"Canonical", "Orphaned"}
       /\ (tx.slots[i].ForkId = 0 <=> tx.slots[i].Status = "Canonical")

\* the fork id a call of persistBlockData resolves to
ResolvedForkId ==
  IF call.overrideForkId /= <<>> THEN call.overrideForkId[1] ELSE call.block.forkId

\* C4 (amended): every Slot row written by persistBlockData is Orphaned when
\* the orphaned flag is set and Canonical otherwise, and carries
\* overrideForkId when it is given and the block's own fork id otherwise; so
\* forkId = 0 <=> Canonical holds exactly for the calls that pass orphaned =
\* false with a resolved fork id of 0, or orphaned = true with a resolved
\* fork id other than 0.  The rows persistEpochData writes (orphaned = false,
\* overrideForkId = 0) are Canonical with fork id 0.
C4_StatusAndForkIdFollowArguments ==
  /\ call.op = "persistBlockData"
     => \A i \in 1 .. Len(tx.slots) :
          /\ tx.slots[i].Status = (IF call.orphaned THEN "Orphaned" ELSE "Canonical")
          /\ tx.slots[i].ForkId = ResolvedForkId
          /\ (tx.slots[i].ForkId = 0 <=> tx.slots[i].Status = "Canonical")
             <=> (call.orphaned <=> ResolvedForkId /= 0)
  /\ call.op = "persistEpochData"
     => \A i \in 1 .. Len(tx.slots) :
          tx.slots[i].Status = "Canonical" /\ tx.slots[i].ForkId = 0

\* an orphaned block written with overrideForkId = 0: an Orphaned row with
\* fork id 0
C4_Witness ==
  /\ call.op = "persistBlockData"
  /\ call.orphaned
  /\ call.overrideForkId = <<0>>
  /\ call.block.forkId /= 0
  /\ Len(tx.slots) = 1
  /\ tx.slots[1].Status = "Orphaned"
  /\ tx.slots[1].ForkId = 0

\* C5: within one persistEpochData call whose epoch stats values are
\* available, the Index values given to the Deposit rows are strictly
\* increasing in (block slot, position in the block) order: they start at
\* FirstDepositIndex and grow by exactly one per row, carried from one block
\* to the next without gap or repeat.
C5_DepositIndexSequential ==
  (call.op = "persistEpochData" /\ call.values /= <<>>)
  => /\ \A k \in 1 .. Len(built) :
          built[k].Index = <<call.values[1].FirstDepositIndex + k - 1>>
     /\ \A k \in 1 .. Len(built) - 1 :
          \/ built[k].SlotNumber < built[k + 1].SlotNumber
          \/ /\ built[k].SlotNumber = built[k + 1].SlotNumber
             /\ built[k].SlotIndex < built[k + 1].SlotIndex

\* two blocks with deposits: the second block's rows continue the first's
C5_Witness ==
  /\ call.op = "persistEpochData"
  /\ call.values /= <<>>
  /\ Len(built) >= 3
  /\ built[1].SlotNumber /= built[Len(built)].SlotNumber
  /\ built[Len(built)].Index = <<call.values[1].FirstDepositIndex + Len(built) - 1>>

\* C6: for every epoch persisted by persistEpochData, the sum of
\* AttestationCount over the Slot rows inserted for the epoch equals the
\* AttestationCount of the Epoch row inserted for it.
C6_AttestationCountSum ==
  (call.op = "persistEpochData" /\ ret = "nil")
  => SumOf(db.slots, 1) = db.epochs[1].AttestationCount

\* the Missing rows the call inserted for a slot
MissingRowsAt(slot) == { i \in 1 .. Len(tx.missing) : tx.missing[i].Slot = slot }

\* persistMissedSlots ran (persistEpochData always calls it) and returned nil
MissedSlotsReturnedNil ==
  call.op = "persistEpochData" /\ call.fault /= "InsertMissingSlot"

\* the attestations of the slashing handed to buildDbSlashings
SlashAtt1 == slashBlock.body[1].attesterSlashings[1].att1

SlashAtt2 == slashBlock.body[1].attesterSlashings[1].att2

\* the number of attester-slashing rows returned for validator v
AttesterRowsFor(v) ==
  Cardinality({ i \in 1 .. Len(slashRows) :
                  /\ slashRows[i].Reason = "AttesterSlashing"
                  /\ slashRows[i].ValidatorIndex = v })

\* the number of times v occurs in the list l
Occurrences(l, v) == Cardinality({ i \in 1 .. Len(l) : l[i] = v })

C8_MissingRowPerEmptySlot ==
  MissedSlotsReturnedNil
  => \A slot \in SlotsOfEpoch(call.epoch) :
       IF HasBlockAt(call.blocks, slot)
       THEN MissingRowsAt(slot) = {}
       ELSE /\ Cardinality(MissingRowsAt(slot)) = 1
            /\ \A i \in MissingRowsAt(slot) :
                 /\ tx.missing[i].Status = "Missing"
                 /\ call.values /= <<>>
                 /\ tx.missing[i].Proposer =
                      call.values[1].ProposerDuties[slot - call.epoch * SlotsPerEpoch]

\* C8 (amended): for a block list of the persisted epoch in strictly
\* ascending slot order, and when persistMissedSlots returns no error, it
\* inserts exactly one Missing row for every slot of the epoch that has no
\* block in the list and none for a slot that has one; the row's proposer is
\* proposerDuties[slot - epochStartSlot] when the epoch stats values are
\* available, and math.MaxInt64 when they are not.
C8_MissingRowPerEmptySlotOfSortedList ==
  (/\ MissedSlotsReturnedNil
   /\ StrictlyAscending(call.blocks)
   /\ InEpoch(call.blocks, call.epoch))
  => \A slot \in SlotsOfEpoch(call.epoch) :
       IF HasBlockAt(call.blocks, slot)
       THEN MissingRowsAt(slot) = {}
       ELSE /\ Cardinality(MissingRowsAt(slot)) = 1
            /\ \A i \in MissingRowsAt(slot) :
                 /\ tx.missing[i].Status = "Missing"
                 /\ tx.missing[i].Proposer =
                      IF call.values /= <<>>
                      THEN call.values[1].ProposerDuties[slot - call.epoch * SlotsPerEpoch]
                      ELSE MaxInt64

\* epoch 1 with stats values and one block at its first slot: the other
\* slots of the epoch get their Missing row with the duty's proposer
C8_Witness ==
  /\ MissedSlotsReturnedNil
  /\ call.epoch = 1
  /\ call.values /= <<>>
  /\ Len(call.blocks) = 1
  /\ call.blocks[1].Slot = SlotsPerEpoch
  /\ Len(tx.missing) = SlotsPerEpoch - 1
  /\ tx.missing[1].Slot = SlotsPerEpoch + 1
  /\ tx.missing[1].Proposer = call.values[1].ProposerDuties[1]

\* the sync committee periods whose first epoch is at or after Altair and
\* has been persisted
StartedPeriods ==
  { n \in 0 .. MaxSyncEpoch :
      /\ n * EpochsPerSyncCommitteePeriod >= AltairForkEpoch
      /\ n * EpochsPerSyncCommitteePeriod < Len(syncLog) }

\* the call made for an epoch
SyncCall(epoch) == syncLog[epoch + 1]

\* the epochs of period n after its first for which a call was made
LaterEpochsCalled(n) ==
  { e \in 0 .. MaxSyncEpoch :
      /\ e < Len(syncLog)
      /\ syncPeriod(e) = n
      /\ e > n * EpochsPerSyncCommitteePeriod }

InsertedOnceAtStart(n) ==
  /\ SyncCall(n * EpochsPerSyncCommitteePeriod).inserted =
       buildSyncAssignments(n, <<StatsValues>>)
  /\ \A e \in LaterEpochsCalled(n) : SyncCall(e).inserted = <<>>

\* C9 (as claimed): when persistSyncAssignments is called over the epochs of
\* sync committee period N (at or after Altair) in ascending order, starting
\* with epoch N * EPOCHS_PER_SYNC_COMMITTEE_PERIOD, the call for that first
\* epoch inserts the period's rows (one per committee member, period = N)
\* and no call for a later epoch of the period inserts any row.
C9_InsertedOnceAtPeriodStart ==
  \A n \in StartedPeriods : InsertedOnceAtStart(n)

\* C9 (amended): the same, provided the epoch stats values are available in
\* the call for the period's first epoch and the rows that call inserts are
\* committed.
C9_InsertedOnceWhenStartCommitted ==
  \A n \in StartedPeriods :
    (/\ SyncCall(n * EpochsPerSyncCommitteePeriod).hasValues
     /\ SyncCall(n * EpochsPerSyncCommitteePeriod).committed)
      => InsertedOnceAtStart(n)

\* period 1: its first epoch inserted and committed the rows, and the call
\* for the next epoch had the stats values and inserted nothing
C9_Witness ==
  /\ 1 \in StartedPeriods
  /\ EpochsPerSyncCommitteePeriod + 1 \in LaterEpochsCalled(1)
  /\ SyncCall(EpochsPerSyncCommitteePeriod).hasValues
  /\ SyncCall(EpochsPerSyncCommitteePeriod).committed
  /\ SyncCall(EpochsPerSyncCommitteePeriod).inserted /= <<>>
  /\ SyncCall(EpochsPerSyncCommitteePeriod + 1).hasValues
  /\ SyncCall(EpochsPerSyncCommitteePeriod + 1).inserted = <<>>

\* the block records delivered that are at or above the finalized slot
RecordsToRestore ==
  { recoveryLog.blocks[i] : i \in { j \in 1 .. Len(recoveryLog.blocks) :
                                      recoveryLog.blocks[j].Slot >= GetFinalizedSlot } }

\* blockCache.getBlock(root) returns a block flagged isInUnfinalizedDb
RestoredToCache(dbBlock) ==
  /\ dbBlock.Root \in DOMAIN blockCache
  /\ blockCache[dbBlock.Root].isInUnfinalizedDb

HeaderDecodes(dbBlock) ==
  dbBlock.HeaderVer = 1 /\ UnmarshalSSZ("header", dbBlock.HeaderSSZ) /= <<>>

BodyDecodes(dbBlock) == UnmarshalSSZ("block", dbBlock.BlockSSZ) /= <<>>

\* C10 (as claimed): after StartIndexer has returned and before any new
\* network event is handled, every unfinalized block record of the recovery
\* log with slot at or above the finalized slot is returned by the block
\* cache with isInUnfinalizedDb = true, its header set and its body set.
C10_RestoredWithHeaderAndBody ==
  startPc = "started" =>
    \A dbBlock \in RecordsToRestore :
      /\ RestoredToCache(dbBlock)
      /\ blockCache[dbBlock.Root].header /= <<>>
      /\ blockCache[dbBlock.Root].block /= <<>>

\* C10 (amended): after StartIndexer has returned, every such record is
\* returned by the block cache with isInUnfinalizedDb = true, with the
\* record's fork id and status; its header is set exactly when the record's
\* header is of version 1 and decodes; its body is set exactly when moreover
\* the body decodes and the record's status is 0; when the body decodes and
\* the status is not 0, only the block index is set and the block is flagged
\* isInFinalizedDb.
C10_RestoredAsFarAsRecordAllows ==
  startPc = "started" =>
    \A dbBlock \in RecordsToRestore :
      /\ RestoredToCache(dbBlock)
      /\ blockCache[dbBlock.Root].Slot = dbBlock.Slot
      /\ blockCache[dbBlock.Root].forkId = dbBlock.ForkId
      /\ blockCache[dbBlock.Root].processingStatus = dbBlock.Status
      /\ blockCache[dbBlock.Root].header /= <<>> <=> HeaderDecodes(dbBlock)
      /\ blockCache[dbBlock.Root].block /= <<>> <=>
           (HeaderDecodes(dbBlock) /\ BodyDecodes(dbBlock) /\ dbBlock.Status = 0)
      /\ (HeaderDecodes(dbBlock) /\ BodyDecodes(dbBlock) /\ dbBlock.Status /= 0)
           => /\ blockCache[dbBlock.Root].blockIndex /= <<>>
              /\ blockCache[dbBlock.Root].isInFinalizedDb

\* StartIndexer has returned after restoring a record exactly at the
\* finalized slot with header and body, and one above it of status 1
C10_Witness ==
  /\ startPc = "started"
  /\ \E a \in RecordsToRestore, b \in RecordsToRestore :
       /\ a.Slot = GetFinalizedSlot
       /\ a.Status = 0
       /\ blockCache[a.Root].header /= <<>>
       /\ blockCache[a.Root].block /= <<>>
       /\ b.Slot > GetFinalizedSlot
       /\ b.Status = 1
       /\ blockCache[b.Root].block = <<>>
       /\ blockCache[b.Root].isInFinalizedDb

\* the duty records delivered that are at or above the finalized epoch
DutiesToRestore ==
  { recoveryLog.duties[i] : i \in { j \in 1 .. Len(recoveryLog.duties) :
                                      recoveryLog.duties[j].Epoch >= GetFinalizedCheckpoint } }

\* epochCache.getEpochStats(epoch, dependentRoot) is not nil
HasEpochStats(dbDuty) == <<dbDuty.Epoch, dbDuty.DependentRoot>> \in DOMAIN epochCache

StatsOf(dbDuty) == epochCache[<<dbDuty.Epoch, dbDuty.DependentRoot>>]

DutiesPopulated(epochStats) ==
  epochStats.values /= <<>> /\ epochStats.values[1].dutiesPopulated

DutiesDecode(dbDuty) == UnmarshalSSZ("duties", dbDuty.DutiesSSZ) /= <<>>

\* C11 (as claimed): after StartIndexer has returned, for every unfinalized
\* duty record of the recovery log with epoch at or above the finalized
\* epoch, epochCache.getEpochStats(epoch, dependentRoot) is not nil and its
\* duty arrays are populated.
C11_EpochStatsRestoredWithDuties ==
  startPc = "started" =>
    \A dbDuty \in DutiesToRestore :
      HasEpochStats(dbDuty) /\ DutiesPopulated(StatsOf(dbDuty))

\* C11 (amended): after StartIndexer has returned, for every such record the
\* epoch stats are not nil; they have values and are flagged isInDb exactly
\* when the record's duties payload decodes, and their duty arrays are
\* populated exactly when moreover the record's epoch is not below
\* lastPrunedEpoch (below it the values are restored pruned).
C11_EpochStatsRestoredAsFarAsRecordAllows ==
  startPc = "started" =>
    \A dbDuty \in DutiesToRestore :
      /\ HasEpochStats(dbDuty)
      /\ StatsOf(dbDuty).values /= <<>> <=> DutiesDecode(dbDuty)
      /\ StatsOf(dbDuty).isInDb <=> DutiesDecode(dbDuty)
      /\ DutiesPopulated(StatsOf(dbDuty)) <=>
           (DutiesDecode(dbDuty) /\ dbDuty.Epoch >= indexer.lastPrunedEpoch)

\* StartIndexer has returned after restoring the stats of a record at the
\* prune cursor's epoch with their duties, and those of a record below the
\* cursor without them
C11_Witness ==
  /\ startPc = "started"
  /\ \E a \in DutiesToRestore, b \in DutiesToRestore :
       /\ a.Epoch = indexer.lastPrunedEpoch
       /\ DutiesPopulated(StatsOf(a))
       /\ b.Epoch < indexer.lastPrunedEpoch
       /\ StatsOf(b).values /= <<>>
       /\ ~DutiesPopulated(StatsOf(b))

\* C12: after StartIndexer has returned, the in-memory pruning cursor
\* lastPrunedEpoch equals the epoch stored in the database under the key
\* indexer.prunestate.
C12_PruneCursorMatchesPersisted ==
  startPc = "started" => indexer.lastPrunedEpoch = pruneStateDb

\* StartIndexer has started nothing yet: no client is indexing, no event is
\* subscribed to, no controller loop runs (so no finality or wall-clock
\* event can be consumed) and the synchronizer is not started
NothingStarted ==
  /\ started.clients = {}
  /\ started.loops = 0
  /\ started.synchronizer = <<>>
  /\ indexer.finalitySubscription = <<>>
  /\ indexer.wallclockSubscription = <<>>

\* C13: in StartIndexer, no client starts indexing, no finality or
\* wall-clock event is consumed and the synchronizer is not started until
\* unfinalized forks, epoch stats (every parallel restore worker finished),
\* epoch aggregations and blocks have all been restored from the recovery
\* log, in that order.
C13_RestoreBeforeStart ==
  /\ startPc /= "started" => NothingStarted
  /\ startPc = "started" => restoreWorkers = {}
  /\ startPc \in {"notStarted", "forks"} =>
       /\ recoveryLog.duties = <<>> /\ restoreWorkers = {} /\ epochCache = <<>>
  /\ startPc \in {"notStarted", "forks", "duties"} =>
       /\ recoveryLog.epochs = <<>>
       /\ \A k \in DOMAIN epochCache : epochCache[k].prunedEpochAggregations = <<>>
  /\ startPc \in {"notStarted", "forks", "duties", "aggregations"} =>
       /\ recoveryLog.blocks = <<>> /\ blockCache = <<>>
  /\ startPc \in {"aggregations", "blocks", "started"} =>
       /\ restoreWorkers = {}
       /\ \A dbDuty \in DutiesToRestore : HasEpochStats(dbDuty)
  /\ startPc = "notStarted" => recoveryLog.forks = <<>> /\ forkCache = {}

\* StartIndexer has returned and started everything after restoring a fork,
\* or epoch stats, or a block
C13_Witness ==
  /\ startPc = "started"
  /\ started.clients = Clients
  /\ started.loops = 1
  /\ started.synchronizer /= <<>>
  /\ indexer.finalitySubscription /= <<>>
  /\ indexer.wallclockSubscription /= <<>>
  /\ DutiesToRestore /= {}
  /\ RecordsToRestore /= {}

\* C14: whenever the handling of an event in runIndexerLoop panics, with any
\* panic value, the panic is caught at the loop boundary and a new instance
\* of the loop eventually runs and resumes consuming the events.
C14_PanicRestartsLoop ==
  (lastHandled.panic /= "none" /\ loop.instances = 0) ~> (loop.instances > 0)

\* C16: when the controller loop handles a finality event whose processing
\* returns an error, lastPrunedEpoch and the persisted pruning cursor stay
\* as they were before the event; the cursor is advanced and persisted only
\* if the processing succeeded.
C16_CursorMovesOnlyOnSuccess ==
  (lastHandled.kind = "finality" /\ lastHandled.panic = "none" /\ lastHandled.err)
    => /\ indexer.lastPrunedEpoch = lastHandled.prunedBefore
       /\ pruneStateDb = lastHandled.persistedBefore

\* C18: in every reachable state, a block has isInFinalizedDb = true only if
\* a Slot row for its root is in the committed database.
C18_FlaggedOnlyIfCommitted ==
  \A root \in isInFinalizedDb :
    \E i \in 1 .. Len(db.slots) : db.slots[i].Root = root

\* the child rows persistBlockData inserted for the block
ChildRows ==
  { tx.deposits[i] : i \in 1 .. Len(tx.deposits) }
    \cup { tx.voluntaryExits[i] : i \in 1 .. Len(tx.voluntaryExits) }
    \cup { tx.slashings[i] : i \in 1 .. Len(tx.slashings) }

\* C19: every Deposit, VoluntaryExit and Slashing row (proposer and attester
\* slashings alike) written by persistBlockData for a block carries the
\* orphaned flag passed to the call and the fork id of the block's Slot row:
\* overrideForkId when it is given, otherwise the block's own fork id.
C19_ChildRowsFollowArguments ==
  call.op = "persistBlockData" =>
    \A row \in ChildRows :
      /\ row.Orphaned = call.orphaned
      /\ row.ForkId = ResolvedForkId

\* C20: at any time at most one instance of the controller loop consumes the
\* finality and wall-clock subscriptions, including across panic restarts
\* (a restarted instance runs only once the panicked one is gone), and the
\* finality events are taken one at a time in the order they were received.
C20_SingleLoopInOrder ==
  /\ loop.instances + loop.recovering <= 1
  /\ started.loops <= 1
  /\ \A i \in 1 .. Len(handled) : handled[i] = i
  /\ \A i \in 1 .. Len(finalityChannel) : finalityChannel[i].seq = Len(handled) + i

\* the loop was restarted after a panic in the handling of the second
\* finality event, and is the one instance
C20_Witness ==
  /\ lastHandled.kind = "finality"
  /\ lastHandled.panic = "error"
  /\ handled = <<1, 2>>
  /\ loop.instances = 1
  /\ loop.recovering = 0

\* C15: for every configuration, the indexer created by NewIndexer has
\* inMemoryEpochs, cachePersistenceDelay and maxParallelStateCalls each at
\* least 2, and each equal to its configured value whenever that value is
\* at least 2.
C15_ConfiguredMinima ==
  newIndexerCall.called =>
    LET config == newIndexerCall.config
        ix == newIndexerCall.indexer
    IN /\ ix.inMemoryEpochs >= 2
       /\ ix.cachePersistenceDelay >= 2
       /\ ix.maxParallelStateCalls >= 2
       /\ config.InMemoryEpochs >= 2 => ix.inMemoryEpochs = config.InMemoryEpochs
       /\ config.CachePersistenceDelay >= 2
            => ix.cachePersistenceDelay = config.CachePersistenceDelay
       /\ config.MaxParallelValidatorSetRequests >= 2
            => ix.maxParallelStateCalls = config.MaxParallelValidatorSetRequests

\* C17: on a wall-clock slot event, for every value of SLOTS_PER_EPOCH, the
\* prune pass runs if and only if the slot's epoch is later than
\* lastPruneRunEpoch and the slot is at least halfway through its epoch
\* (slot index within the epoch >= SLOTS_PER_EPOCH / 2).
C17_PruneIffHalfway ==
  wallclockCall.called =>
    (wallclockCall.pruned <=>
       /\ EpochOfSlot(wallclockCall.slotsPerEpoch, wallclockCall.slot)
            > wallclockCall.lastPruneRunEpoch
       /\ 2 * SlotToSlotIndex(wallclockCall.slotsPerEpoch, wallclockCall.slot)
            >= wallclockCall.slotsPerEpoch)

\* C21: at most ProcessingLimit (10) restore goroutines run at the same
\* time, however many duty records the database streams, and none of them
\* is still running once the restore of the epoch aggregations has begun
C21_WorkersLimited ==
  /\ Cardinality(restoreWorkers) <= 10
  /\ startPc /= "duties" => restoreWorkers = {}

\* the limiter is full while the stream holds more records than it has slots
C21_Witness ==
  /\ startPc = "duties"
  /\ Len(recoveryLog.duties) > 10
  /\ Cardinality(restoreWorkers) = 10

\* C22: once StartIndexer has set the cursors, and whenever the loop has
\* finished handling a finality event, lastPrunedEpoch is at least
\* lastFinalizedEpoch; and no step of the loop lowers lastPrunedEpoch
C22_PruneCursorFollowsFinality ==
  /\ [](lastHandled.kind \in {"none", "finality"} /\ lastHandled.panic = "none"
          => indexer.lastPrunedEpoch >= indexer.lastFinalizedEpoch)
  /\ [][indexer'.lastPrunedEpoch >= indexer.lastPrunedEpoch]_vars

\* a finality event has been handled that moved both cursors
C22_Witness ==
  /\ lastHandled.kind = "finality"
  /\ lastHandled.panic = "none"
  /\ indexer.lastFinalizedEpoch > FinalizedEpoch
  /\ indexer.lastPrunedEpoch > lastHandled.prunedBefore

C24_CodecHasChainSpec ==
  (newIndexerCall.called /\ ~newIndexerCall.marshalErr)
    => /\ DOMAIN newIndexerCall.dynSsz /= {}
       /\ \A k \in DOMAIN GetSpecs :
            /\ k \in DOMAIN newIndexerCall.dynSsz
            /\ newIndexerCall.dynSsz[k] = GetSpecs[k]

\* the larger of two numbers
Max(a, b) == IF a > b THEN a ELSE b

\* C26: for all cursors, getMinInMemoryEpoch returns
\* max(lastFinalizedEpoch, lastPrunedEpoch) - 1, and 0 when both are 0,
\* never a value wrapped below zero; raising either cursor never lowers the
\* result; and getMinInMemorySlot is the first slot of the following epoch
C26_MinInMemoryEpoch ==
  minInMemoryCall.called =>
    LET f == minInMemoryCall.lastFinalizedEpoch
        p == minInMemoryCall.lastPrunedEpoch
    IN /\ minInMemoryCall.epoch = IF Max(f, p) = 0 THEN 0 ELSE Max(f, p) - 1
       /\ minInMemoryCall.epoch <= Max(f, p)
       /\ \A f2 \in f .. MaxUint, p2 \in p .. MaxUint :
            getMinInMemoryEpoch(f2, p2) >= minInMemoryCall.epoch
       /\ minInMemoryCall.slot = (minInMemoryCall.epoch + 1) * SlotsPerEpoch

\* the prune cursor decides: it is above the finalized epoch, which is not 0
C26_Witness ==
  /\ minInMemoryCall.called
  /\ minInMemoryCall.lastFinalizedEpoch > 0
  /\ minInMemoryCall.lastPrunedEpoch > minInMemoryCall.lastFinalizedEpoch
  /\ minInMemoryCall.epoch = minInMemoryCall.lastPrunedEpoch - 1

\* C25: persistEpochData called without a transaction opens exactly one
\* transaction, every row it inserts (Slot, child, missing-slot and Epoch
\* rows) is inserted through it, committed with it when the call returns
\* nil and rolled back with it otherwise, and the call returns nil exactly
\* when that transaction has committed
C25_OneOwnTransaction ==
  call.op = "persistEpochData" =>
    /\ opened = 1
    /\ ret = "nil" => db = tx /\ Len(db.epochs) = 1
    /\ ret /= "nil" => db = EmptyTx

\* a call whose transaction committed Slot, Deposit, missing-slot and Epoch
\* rows
C25_Witness ==
  /\ call.op = "persistEpochData"
  /\ ret = "nil"
  /\ Len(db.slots) > 0
  /\ Len(db.deposits) > 0
  /\ Len(db.missing) > 0
  /\ Len(db.epochs) = 1

BlockRecords == { recoveryLog.blocks[i] : i \in 1 .. Len(recoveryLog.blocks) }

DutyRecords == { recoveryLog.duties[i] : i \in 1 .. Len(recoveryLog.duties) }

\* C28: after StartIndexer has returned, no block of the block cache has a
\* slot below the finalized slot and no epoch stats of the epoch cache have
\* an epoch below the finalized epoch, the records of the recovery log below
\* the checkpoint having been skipped, while every block record exactly at
\* the finalized slot and every duty record exactly at the finalized epoch
\* has its block or epoch stats in the cache
C28_NothingBelowFinalizedRestored ==
  startPc = "started" =>
    /\ \A root \in DOMAIN blockCache : blockCache[root].Slot >= GetFinalizedSlot
    /\ \A key \in DOMAIN epochCache : key[1] >= GetFinalizedCheckpoint
    /\ \A dbBlock \in BlockRecords :
         /\ dbBlock.Slot < GetFinalizedSlot => dbBlock.Root \notin DOMAIN blockCache
         /\ dbBlock.Slot = GetFinalizedSlot => RestoredToCache(dbBlock)
    /\ \A dbDuty \in DutyRecords :
         /\ dbDuty.Epoch < GetFinalizedCheckpoint => ~HasEpochStats(dbDuty)
         /\ dbDuty.Epoch = GetFinalizedCheckpoint => HasEpochStats(dbDuty)

\* StartIndexer has returned after a duty record exactly at the finalized
\* epoch, which is restored, and a block record below the finalized slot,
\* which is not
C28_Witness ==
  /\ startPc = "started"
  /\ \E dbDuty \in DutyRecords :
       dbDuty.Epoch = GetFinalizedCheckpoint /\ HasEpochStats(dbDuty)
  /\ \E dbBlock \in BlockRecords :
       dbBlock.Slot < GetFinalizedSlot /\ dbBlock.Root \notin DOMAIN blockCache

\* C29: a call of StartIndexer made while the indexer is running changes
\* nothing: the cursors and subscriptions, the persisted prune state, the
\* caches, the restore position, the started clients, the loop instances and
\* the synchronizer are as before
C29_SecondStartChangesNothing ==
  [][(indexer.running /\ startCalls' = startCalls + 1)
       => /\ indexer' = indexer
          /\ startPc' = startPc
          /\ UNCHANGED <<pruneStateDb, recoveryLog, forkCache, epochCache, blockCache,
                         restoreWorkers, started, loop>>]_vars

\* StartIndexer has been called a second time, after the first call returned
C29_Witness ==
  /\ startCalls = 2
  /\ startPc = "started"
  /\ indexer.running
  /\ started.loops = 1
  /\ Len(started.synchronizer) = 1

====
